---- MODULE Spec2Model ----
(***************************************************************************)
(* Multi-service orchestration engine of the plagiarism / AI-detection     *)
(* checker: the category dispatcher (backend/services/plagiarism.py), the  *)
(* ordered fallback rephraser (backend/services/rephraser.py), the summary *)
(* generator (backend/services/summarizer.py) and the two request flows    *)
(* of backend/main.py.                                                     *)
(*                                                                         *)
(* Python values are modelled as follows.  A dict is a function whose      *)
(* domain is the set of its keys; a str used as a message or a name is a   *)
(* TLA+ string; a text payload is a tuple of characters; an Optional is    *)
(* <<>> (None) or <<v>>; a call either returns a value or raises, and is   *)
(* the record Return(v) or Raise(e).                                       *)
(***************************************************************************)
EXTENDS Integers, Sequences, FiniteSets, TLC

VARIABLES
    pc,                   \* control point of the request being served
    flow,                 \* entry point: "check", "rephrase", "dispatch", "rephraser"
    request,              \* the inbound form: [text, file], each an Optional
    text,                 \* the handler's local `text` (an Optional)
    environ,              \* os.environ: the process-wide OPENAI_API_KEY
    plagiarism_services,  \* enabled plagiarism service configurations
    ai_detector_services, \* enabled AI-detector service configurations
    rephrasing_services,  \* enabled rephrasing service configurations
    openai_config,        \* get_openai_config(config)
    results,              \* the dispatcher's local `results` list
    position,             \* how many services the running for loop has taken
    last_result,          \* the rephraser's local `last_result` (an Optional)
    rephrased_text,       \* the handler's local `rephrased_text`
    rephrase_result,      \* the handler's local `rephrase_result` (an Optional)
    plagiarism_results,   \* the handler's local `plagiarism_results`
    ai_detection_results, \* the handler's local `ai_detection_results`
    summary,              \* the handler's local `summary` (an Optional)
    response,             \* what the caller receives (an Optional)
    calls,                \* history: every remote call made for the request, in order
    suspended             \* the locals of another request waiting at an await (an Optional)

vars == << pc, flow, request, text, environ, plagiarism_services,
           ai_detector_services, rephrasing_services, openai_config, results,
           position, last_result, rephrased_text, rephrase_result,
           plagiarism_results, ai_detection_results, summary, response, calls,
           suspended >>

configVars == << environ, plagiarism_services, ai_detector_services,
                 rephrasing_services, openai_config >>
handlerVars == << rephrased_text, rephrase_result, plagiarism_results,
                  ai_detection_results, summary, response >>

----------------------------------------------------------------------------
(* Bounds of the model. *)

MaxPlag == 2
MaxAI == 1
MaxReph == 3

----------------------------------------------------------------------------
(* Python values. *)

None == << >>
Some(v) == << v >>

EmptyDict == [k \in {} |-> << >>]

\* dict.get(key, default)
Get(d, k, default) == IF k \in DOMAIN d THEN d[k] ELSE default

\* str.strip() on a tuple of characters
Whitespace == {" ", "\n", "\t"}
RECURSIVE LStrip(_)
LStrip(s) == IF s # << >> /\ Head(s) \in Whitespace THEN LStrip(Tail(s)) ELSE s
RECURSIVE RStrip(_)
RStrip(s) ==
    IF s # << >> /\ s[Len(s)] \in Whitespace THEN RStrip(SubSeq(s, 1, Len(s) - 1)) ELSE s
Strip(s) == RStrip(LStrip(s))

\* The outcome of an expression: a value, or a raised exception.
NoException == [cls |-> "", msg |-> "", status_code |-> 0]
Exc(cls, msg) == [cls |-> cls, msg |-> msg, status_code |-> 0]
Return(v) == [raised |-> FALSE, value |-> v, exc |-> NoException]
Raise(e) == [raised |-> TRUE, value |-> << >>, exc |-> e]

\* The classes an exception is an instance of (isinstance in an except clause).
Bases(cls) ==
    CASE cls = "TimeoutException" ->
            {"TimeoutException", "TransportError", "RequestError", "HTTPError", "Exception"}
      [] cls = "ConnectError" ->
            {"ConnectError", "TransportError", "RequestError", "HTTPError", "Exception"}
      [] cls = "HTTPStatusError" -> {"HTTPStatusError", "HTTPError", "Exception"}
      [] cls = "JSONDecodeError" -> {"JSONDecodeError", "ValueError", "Exception"}
      [] cls = "ValidationError" -> {"ValidationError", "ValueError", "Exception"}
      [] cls = "APIError" -> {"APIError", "OpenAIError", "Exception"}
      [] OTHER -> {cls, "Exception"}
IsInstance(e, cls) == cls \in Bases(e.cls)

\* A JSON value: an object (a mapping), or something else.
JsonObject(d) == [type |-> "object", members |-> d]
JsonArray == [type |-> "array", members |-> EmptyDict]
JsonInvalid == [type |-> "invalid", members |-> EmptyDict]

----------------------------------------------------------------------------
(* ServiceResult. *)

ValidationMsg == "1 validation error for ServiceResult"

\* ServiceResult(service_name=..., service_type=..., success=..., result=..., error=...):
\* `result` must validate as a dict, `error` is str | None.
ServiceResult(service_name, service_type, success, result, error) ==
    IF result.type # "object"
    THEN Raise(Exc("ValidationError", ValidationMsg))
    ELSE Return([service_name |-> service_name,
                 service_type |-> service_type,
                 success      |-> success,
                 result       |-> result.members,
                 error        |-> error])

\* The field defaults: result=dict(), error=None.
DefaultResult == JsonObject(EmptyDict)

----------------------------------------------------------------------------
(* The outbound HTTP call of one service (httpx). *)

HTTP_TIMEOUT == 30

\* What the remote end does with one request.
Responds(status_code, body) ==
    [delay |-> 0, fails |-> None, status_code |-> status_code, body |-> body]
Stalls == [delay |-> HTTP_TIMEOUT + 1, fails |-> None, status_code |-> 200,
           body |-> JsonObject(EmptyDict)]
Unreachable(msg) == [delay |-> 0, fails |-> Some(msg), status_code |-> 0,
                     body |-> JsonInvalid]

\* client.post(...) under AsyncClient(timeout=30.0)
client_post(remote) ==
    IF remote.delay > HTTP_TIMEOUT THEN Raise(Exc("TimeoutException", ""))
    ELSE IF remote.fails # None THEN Raise(Exc("ConnectError", remote.fails[1]))
    ELSE Return(remote)

\* response.raise_for_status()
raise_for_status(resp) ==
    IF resp.status_code \in 200..299
    THEN Return(resp)
    ELSE Raise([cls |-> "HTTPStatusError", msg |-> "Client or server error",
                status_code |-> resp.status_code])

JsonDecodeMsg == "Expecting value: line 1 column 1 (char 0)"

\* response.json()
response_json(resp) ==
    IF resp.body.type = "invalid"
    THEN Raise(Exc("JSONDecodeError", JsonDecodeMsg))
    ELSE Return(resp.body)

----------------------------------------------------------------------------
(* Category dispatcher: backend/services/plagiarism.py *)

\* The request one service receives: url, json={"text": text}, Authorization header.
OutboundRequest(txt, api_url, api_key) ==
    [url |-> api_url, json |-> [text |-> txt], authorization |-> "Bearer " \o api_key]

\* An entry of the history of remote calls.
Call(category, via, index, req, remote) ==
    [category |-> category, via |-> via, index |-> index, request |-> req,
     remote |-> remote]

\* The try block of check_plagiarism.
check_plagiarism_try(service_name, remote) ==
    LET posted == client_post(remote) IN
    IF posted.raised THEN posted
    ELSE LET checked == raise_for_status(posted.value) IN
         IF checked.raised THEN checked
         ELSE LET result_data == response_json(posted.value) IN
              IF result_data.raised THEN result_data
              ELSE ServiceResult(service_name, "plagiarism", TRUE,
                                 result_data.value, None)

\* check_plagiarism with the catch-all handler listed first: every failure is
\* reported as str(e).
check_plagiarism_catch_all_first(txt, service_config, remote) ==
    LET service_name == Get(service_config, "name", "Unknown Service")
        tried == check_plagiarism_try(service_name, remote)
    IN  IF ~tried.raised THEN tried
        ELSE ServiceResult(service_name, "plagiarism", FALSE, DefaultResult,
                           Some(tried.exc.msg))

\* check_plagiarism whose last handler is `except httpx.HTTPError`.
check_plagiarism_http_errors_only(txt, service_config, remote) ==
    LET service_name == Get(service_config, "name", "Unknown Service")
        tried == check_plagiarism_try(service_name, remote)
        e == tried.exc
    IN  IF ~tried.raised THEN tried
        ELSE IF IsInstance(e, "TimeoutException")
        THEN ServiceResult(service_name, "plagiarism", FALSE, DefaultResult,
                           Some("Request timed out"))
        ELSE IF IsInstance(e, "HTTPStatusError")
        THEN ServiceResult(service_name, "plagiarism", FALSE, DefaultResult,
                           Some("HTTP error: " \o ToString(e.status_code)))
        ELSE IF IsInstance(e, "HTTPError")
        THEN ServiceResult(service_name, "plagiarism", FALSE, DefaultResult,
                           Some(e.msg))
        ELSE tried

check_plagiarism(txt, service_config, remote) ==
    LET service_name == Get(service_config, "name", "Unknown Service")
        tried == check_plagiarism_try(service_name, remote)
        e == tried.exc
    IN  IF ~tried.raised THEN tried
        ELSE IF IsInstance(e, "TimeoutException")
        THEN ServiceResult(service_name, "plagiarism", FALSE, DefaultResult,
                           Some("Request timed out"))
        ELSE IF IsInstance(e, "HTTPStatusError")
        THEN ServiceResult(service_name, "plagiarism", FALSE, DefaultResult,
                           Some("HTTP error: " \o ToString(e.status_code)))
        ELSE IF IsInstance(e, "Exception")
        THEN ServiceResult(service_name, "plagiarism", FALSE, DefaultResult,
                           Some(e.msg))
        ELSE tried

\* What a remote plagiarism (or AI-detection) service may do with one call.
ReportBody == JsonObject([score |-> <<"4", "2">>])
CheckerRemotes ==
    { Responds(200, ReportBody), Responds(200, JsonArray), Responds(200, JsonInvalid),
      Responds(404, JsonInvalid), Responds(500, ReportBody),
      Stalls, Unreachable("") }
CheckerRemotesInFlows == { Responds(200, ReportBody), Responds(500, ReportBody) }

\* results.append(result), keeping successes only
results_append_successes(rs, r) == IF r.success THEN Append(rs, r) ELSE rs

\* results.append(result), where a failure sticks to the results after it
results_append_sticky(rs, r) ==
    IF rs # << >> /\ ~rs[Len(rs)].success
    THEN Append(rs, [r EXCEPT !.success = FALSE, !.result = EmptyDict,
                              !.error = rs[Len(rs)].error])
    ELSE Append(rs, r)

\* results.append(result)
results_append(rs, r) == Append(rs, r)

\* The remote behaviours explored at an entry point: the components on their own
\* meet every behaviour, the request flows the representative ones.
RemotesOf(entry, all, representative) ==
    IF entry \in {"check", "rephrase"} THEN representative ELSE all

\* The text of the request, passed in both flows
DispatchTextOriginal == text[1]

\* The text a category dispatch is called with: main.py line 93 passes `text`,
\* line 167 passes `rephrased_text`.
DispatchText == IF flow = "rephrase" THEN rephrased_text ELSE text[1]

\* One iteration of the loop, a service whose call failed being called a second
\* time before the loop moves on.
check_all_plagiarism_services_loop_retry ==
    /\ pc = "plagiarism"
    /\ position < Len(plagiarism_services)
    /\ \E remote \in RemotesOf(flow, CheckerRemotes, CheckerRemotesInFlows) :
          LET service == plagiarism_services[position + 1]
              result == check_plagiarism(DispatchText, service, remote)
          IN  /\ calls' = Append(calls,
                    Call("plagiarism", "http", position + 1,
                         OutboundRequest(DispatchText, Get(service, "api_url", ""),
                                         Get(service, "api_key", "")),
                         remote))
              /\ IF result.raised
                 THEN /\ pc' = "raised"
                      /\ UNCHANGED << results, position >>
                 ELSE IF /\ ~result.value.success
                         /\ ~(calls # << >> /\ calls[Len(calls)].category = "plagiarism"
                                            /\ calls[Len(calls)].index = position + 1)
                 THEN UNCHANGED << results, position, pc >>
                 ELSE /\ results' = results_append(results, result.value)
                      /\ position' = position + 1
                      /\ pc' = pc
    /\ UNCHANGED << suspended, flow, request, text, configVars, last_result, handlerVars >>

\* One iteration of `for service in services` in check_all_plagiarism_services.
check_all_plagiarism_services_loop ==
    /\ pc = "plagiarism"
    /\ position < Len(plagiarism_services)
    /\ \E remote \in RemotesOf(flow, CheckerRemotes, CheckerRemotesInFlows) :
          LET service == plagiarism_services[position + 1]
              result == check_plagiarism(DispatchText, service, remote)
          IN  /\ calls' = Append(calls,
                    Call("plagiarism", "http", position + 1,
                         OutboundRequest(DispatchText, Get(service, "api_url", ""),
                                         Get(service, "api_key", "")),
                         remote))
              /\ IF result.raised
                 THEN /\ pc' = "raised"
                      /\ UNCHANGED << results, position >>
                 ELSE /\ results' = results_append(results, result.value)
                      /\ position' = position + 1
                      /\ pc' = pc
    /\ UNCHANGED << suspended, flow, request, text, configVars, last_result, handlerVars >>

\* `return results` indented into the loop: the dispatch returns after its first
\* service.
check_all_plagiarism_services_return_early ==
    /\ pc = "plagiarism"
    /\ position = Len(plagiarism_services) \/ position = 1
    /\ plagiarism_results' = results
    /\ results' = << >>
    /\ position' = 0
    /\ pc' = IF flow = "dispatch" THEN "returned" ELSE "ai_detection"
    /\ UNCHANGED << suspended, flow, request, text, configVars, last_result, rephrased_text,
                    rephrase_result, ai_detection_results, summary, response, calls >>

\* `return results`, received by the caller: main.py lines 93 and 167 bind it to
\* plagiarism_results and go on to the AI-detection dispatch.
check_all_plagiarism_services_return ==
    /\ pc = "plagiarism"
    /\ position = Len(plagiarism_services)
    /\ plagiarism_results' = results
    /\ results' = << >>
    /\ position' = 0
    /\ pc' = IF flow = "dispatch" THEN "returned" ELSE "ai_detection"
    /\ UNCHANGED << suspended, flow, request, text, configVars, last_result, rephrased_text,
                    rephrase_result, ai_detection_results, summary, response, calls >>

----------------------------------------------------------------------------
(* Ordered fallback rephraser: backend/services/rephraser.py *)

\* What the language-model provider may do with one chat completion: raise, or
\* answer with a message whose content is a string or None.
Completes(content) == [raises |-> None, content |-> content]
Refuses(msg) == [raises |-> Some(msg), content |-> None]

\* client.chat.completions.create(...)
chat_completions_create(llm) ==
    IF llm.raises # None THEN Raise(Exc("APIError", llm.raises[1])) ELSE Return(llm)

\* `x or default` on an Optional string
OrElse(opt, default) == IF opt = None \/ opt[1] = << >> THEN default ELSE opt[1]

rephrase_text_with_openai(txt, api_key, llm) ==
    LET response_ == chat_completions_create(llm) IN
    IF response_.raised
    THEN IF IsInstance(response_.exc, "Exception")
         THEN LET failed == ServiceResult("OpenAI Rephraser", "rephrasing", FALSE,
                                          DefaultResult, Some(response_.exc.msg))
              IN  IF failed.raised THEN failed
                  ELSE Return([rephrased |-> << >>, result |-> failed.value])
         ELSE response_
    ELSE LET rephrased == OrElse(response_.value.content, << >>)
             ok == ServiceResult("OpenAI Rephraser", "rephrasing", TRUE,
                                 JsonObject([rephrased_text |-> rephrased]), None)
         IN  IF ok.raised THEN ok
             ELSE Return([rephrased |-> rephrased, result |-> ok.value])

AttributeMsg == "'list' object has no attribute 'get'"

\* The try block with `result_data["rephrased_text"]`: a payload without the key
\* raises KeyError.
rephrase_text_with_service_try_requires_key(service_name, remote) ==
    LET posted == client_post(remote) IN
    IF posted.raised THEN posted
    ELSE LET checked == raise_for_status(posted.value) IN
         IF checked.raised THEN checked
         ELSE LET result_data == response_json(posted.value) IN
              IF result_data.raised THEN result_data
              ELSE IF result_data.value.type # "object"
              THEN Raise(Exc("AttributeError", AttributeMsg))
              ELSE IF "rephrased_text" \notin DOMAIN result_data.value.members
              THEN Raise(Exc("KeyError", "'rephrased_text'"))
              ELSE LET ok == ServiceResult(service_name, "rephrasing", TRUE,
                                           result_data.value, None)
                   IN  IF ok.raised THEN ok
                       ELSE Return([rephrased |-> result_data.value.members.rephrased_text,
                                    result |-> ok.value])

\* The try block of rephrase_text_with_service (the outbound HTTP route).
rephrase_text_with_service_try(service_name, remote) ==
    LET posted == client_post(remote) IN
    IF posted.raised THEN posted
    ELSE LET checked == raise_for_status(posted.value) IN
         IF checked.raised THEN checked
         ELSE LET result_data == response_json(posted.value) IN
              IF result_data.raised THEN result_data
              ELSE IF result_data.value.type # "object"
              THEN Raise(Exc("AttributeError", AttributeMsg))
              ELSE LET d == result_data.value.members
                       rephrased == Get(d, "rephrased_text", Get(d, "text", << >>))
                       ok == ServiceResult(service_name, "rephrasing", TRUE,
                                           result_data.value, None)
                   IN  IF ok.raised THEN ok
                       ELSE Return([rephrased |-> rephrased, result |-> ok.value])

\* The credential of the internal-LLM route, the environment's taking precedence
OpenAIKeyEnvFirst(api_key, env) ==
    IF Get(env, "OPENAI_API_KEY", "") # "" THEN env.OPENAI_API_KEY ELSE api_key

\* The credential of the internal-LLM route: api_key or os.getenv("OPENAI_API_KEY", "")
OpenAIKey(api_key, env) == IF api_key # "" THEN api_key ELSE Get(env, "OPENAI_API_KEY", "")

\* Whether a service is routed to the language model: api_url == "openai"
UsesOpenAI(service_config) == Get(service_config, "api_url", "") = "openai"

\* rephrase_text_with_service(text, service_config); `remote` is what the HTTP
\* endpoint does, `llm` what the language model does, whichever route is taken.
rephrase_text_with_service(txt, service_config, env, remote, llm) ==
    LET service_name == Get(service_config, "name", "Unknown Service")
        api_key == Get(service_config, "api_key", "")
    IN  IF UsesOpenAI(service_config)
        THEN rephrase_text_with_openai(txt, OpenAIKey(api_key, env), llm)
        ELSE LET tried == rephrase_text_with_service_try(service_name, remote)
                 e == tried.exc
                 Failed(error) ==
                     LET failed == ServiceResult(service_name, "rephrasing", FALSE,
                                                 DefaultResult, Some(error))
                     IN  IF failed.raised THEN failed
                         ELSE Return([rephrased |-> << >>, result |-> failed.value])
             IN  IF ~tried.raised THEN tried
                 ELSE IF IsInstance(e, "TimeoutException") THEN Failed("Request timed out")
                 ELSE IF IsInstance(e, "HTTPStatusError")
                 THEN Failed("HTTP error: " \o ToString(e.status_code))
                 ELSE IF IsInstance(e, "Exception") THEN Failed(e.msg)
                 ELSE tried

\* What a remote rephrasing service and the language model may do with one call.
Reworded == <<"O", "k">>
Echoed == <<"H", "i", "!">>
RephraserRemotes ==
    { Responds(200, JsonObject([rephrased_text |-> Reworded])),
      Responds(200, JsonObject([text |-> Echoed])),
      Responds(200, JsonObject([rephrased_text |-> Reworded, text |-> Echoed])),
      Responds(200, JsonObject(EmptyDict)),
      Responds(200, JsonArray),
      Responds(500, JsonInvalid),
      Stalls, Unreachable("") }
LLMRemotes ==
    { Completes(Some(Reworded)), Completes(None), Refuses("Incorrect API key provided"),
      Refuses("") }
RephraserRemotesInFlows ==
    { Responds(200, JsonObject([rephrased_text |-> Reworded])),
      Responds(200, JsonObject(EmptyDict)),
      Responds(500, JsonInvalid) }
LLMRemotesInFlows == { Completes(Some(Reworded)), Refuses("Incorrect API key provided") }

\* The remote behaviours that are not consulted on a route are fixed, so that
\* one call is one choice.
IdleRemote == Unreachable("")
IdleLLM == Refuses("")

\* The return of rephrase_with_first_enabled, received by its caller: main.py
\* line 150 binds the pair and goes on to line 154.
RephraserReturns(rephrased, result) ==
    /\ rephrased_text' = rephrased
    /\ rephrase_result' = Some(result)
    /\ position' = 0
    /\ last_result' = None
    /\ pc' = IF flow = "rephraser" THEN "returned" ELSE "rephrased"

\* The final return of rephrase_with_first_enabled
NoServicesAvailable ==
    ServiceResult("None", "rephrasing", FALSE, DefaultResult,
                  Some("No rephrasing services available")).value

\* The result of the empty list, without its error text
NoServicesEnabledSilent ==
    ServiceResult("None", "rephrasing", FALSE, DefaultResult, Some("")).value

\* ServiceResult(service_name="None", ..., error="No rephrasing services enabled")
NoServicesEnabled ==
    ServiceResult("None", "rephrasing", FALSE, DefaultResult,
                  Some("No rephrasing services enabled")).value

\* `if result.success`, never taken
StopsNever(result) == FALSE

\* `if result.success:` (then `return rephrased, result`)
Stops(result) == result.success

\* `last_result = result`, kept from the first attempt only
RememberFirst(last, result) == IF last = None THEN Some(result) ELSE last

\* `last_result = result`
Remember(last, result) == Some(result)

\* `if not services: return "", ServiceResult(...)`
rephrase_with_first_enabled_none ==
    /\ pc = "rephraser"
    /\ rephrasing_services = << >>
    /\ RephraserReturns(<< >>, NoServicesEnabled)
    /\ UNCHANGED << suspended, flow, request, text, configVars, results, plagiarism_results,
                    ai_detection_results, summary, response, calls >>

\* One iteration of `for service in services` in rephrase_with_first_enabled.
rephrase_with_first_enabled_loop ==
    /\ pc = "rephraser"
    /\ position < Len(rephrasing_services)
    /\ LET service == rephrasing_services[position + 1]
           api_key == Get(service, "api_key", "")
       IN  \E remote \in (IF UsesOpenAI(service) THEN {IdleRemote}
                          ELSE RemotesOf(flow, RephraserRemotes, RephraserRemotesInFlows)),
              llm \in (IF UsesOpenAI(service)
                       THEN RemotesOf(flow, LLMRemotes, LLMRemotesInFlows)
                       ELSE {IdleLLM}) :
              LET got == rephrase_text_with_service(text[1], service, environ, remote, llm)
              IN  /\ calls' = Append(calls,
                        IF UsesOpenAI(service)
                        THEN Call("rephrasing", "llm", position + 1,
                                  [api_key |-> OpenAIKey(api_key, environ),
                                   model |-> "gpt-4", content |-> text[1]], llm)
                        ELSE Call("rephrasing", "http", position + 1,
                                  OutboundRequest(text[1], Get(service, "api_url", ""),
                                                  api_key), remote))
                  /\ IF got.raised
                     THEN /\ pc' = "raised"
                          /\ UNCHANGED << position, last_result, rephrased_text,
                                          rephrase_result >>
                     ELSE IF Stops(got.value.result)
                          THEN RephraserReturns(got.value.rephrased, got.value.result)
                          ELSE /\ last_result' = Remember(last_result, got.value.result)
                               /\ position' = position + 1
                               /\ UNCHANGED << pc, rephrased_text, rephrase_result >>
    /\ UNCHANGED << suspended, flow, request, text, configVars, results, plagiarism_results,
                    ai_detection_results, summary, response >>

\* After the loop, with one more round over the services when all of them failed.
rephrase_with_first_enabled_retry ==
    /\ pc = "rephraser"
    /\ rephrasing_services # << >>
    /\ position = Len(rephrasing_services)
    /\ IF Len(calls) = Len(rephrasing_services)
       THEN /\ position' = 0
            /\ UNCHANGED << pc, last_result, rephrased_text, rephrase_result >>
       ELSE IF last_result # None
       THEN RephraserReturns(<< >>, last_result[1])
       ELSE RephraserReturns(<< >>, NoServicesAvailable)
    /\ UNCHANGED << suspended, flow, request, text, configVars, results, plagiarism_results,
                    ai_detection_results, summary, response, calls >>

\* After the loop: `if last_result is not None: return "", last_result`, else the
\* final return of the function.
rephrase_with_first_enabled_exhausted ==
    /\ pc = "rephraser"
    /\ rephrasing_services # << >>
    /\ position = Len(rephrasing_services)
    /\ IF last_result # None
       THEN RephraserReturns(<< >>, last_result[1])
       ELSE RephraserReturns(<< >>, NoServicesAvailable)
    /\ UNCHANGED << suspended, flow, request, text, configVars, results, plagiarism_results,
                    ai_detection_results, summary, response, calls >>

----------------------------------------------------------------------------
(* AI-detection dispatcher: backend.services.ai_detector, imported by main.py. *)
(* It is the category dispatcher for the AI-detection category.                *)

detect_ai(txt, service_config, remote) ==
    LET service_name == Get(service_config, "name", "Unknown Service")
        Failed(error) == ServiceResult(service_name, "ai_detection", FALSE,
                                       DefaultResult, Some(error))
        posted == client_post(remote)
        checked == IF posted.raised THEN posted ELSE raise_for_status(posted.value)
        result_data == IF checked.raised THEN checked ELSE response_json(posted.value)
        tried == IF result_data.raised THEN result_data
                 ELSE ServiceResult(service_name, "ai_detection", TRUE,
                                    result_data.value, None)
        e == tried.exc
    IN  IF ~tried.raised THEN tried
        ELSE IF IsInstance(e, "TimeoutException") THEN Failed("Request timed out")
        ELSE IF IsInstance(e, "HTTPStatusError")
        THEN Failed("HTTP error: " \o ToString(e.status_code))
        ELSE IF IsInstance(e, "Exception") THEN Failed(e.msg)
        ELSE tried

\* One iteration of the loop of detect_all_ai_services.
detect_all_ai_services_loop ==
    /\ pc = "ai_detection"
    /\ position < Len(ai_detector_services)
    /\ \E remote \in RemotesOf(flow, CheckerRemotes, CheckerRemotesInFlows) :
          LET service == ai_detector_services[position + 1]
              result == detect_ai(DispatchText, service, remote)
          IN  /\ calls' = Append(calls,
                    Call("ai_detection", "http", position + 1,
                         OutboundRequest(DispatchText, Get(service, "api_url", ""),
                                         Get(service, "api_key", "")),
                         remote))
              /\ IF result.raised
                 THEN /\ pc' = "raised"
                      /\ UNCHANGED << results, position >>
                 ELSE /\ results' = Append(results, result.value)
                      /\ position' = position + 1
                      /\ pc' = pc
    /\ UNCHANGED << suspended, flow, request, text, configVars, last_result, handlerVars >>

\* The return of detect_all_ai_services: main.py lines 94 and 168 bind it to
\* ai_detection_results and go on to generate_summary.
detect_all_ai_services_return ==
    /\ pc = "ai_detection"
    /\ position = Len(ai_detector_services)
    /\ ai_detection_results' = results
    /\ results' = << >>
    /\ position' = 0
    /\ pc' = "summary"
    /\ UNCHANGED << suspended, flow, request, text, configVars, last_result, rephrased_text,
                    rephrase_result, plagiarism_results, summary, response, calls >>

----------------------------------------------------------------------------
(* Summary generator: backend/services/summarizer.py *)

\* "".join(parts)
RECURSIVE Join(_)
Join(parts) == IF parts = << >> THEN "" ELSE Head(parts) \o Join(Tail(parts))

\* f"{result.error}"
Str(error) == IF error = None THEN "None" ELSE error[1]

\* The lines of one category, the failed services left out.
CategoryLinesSuccessfulOnly(rs, completed, none_enabled) ==
    IF rs # << >>
    THEN LET successful == SelectSeq(rs, LAMBDA r : r.success)
         IN  [i \in 1..Len(successful) |->
                 "- **" \o successful[i].service_name \o "**: " \o completed \o "\n"]
    ELSE << none_enabled >>

\* The lines of one category, nothing being said of an empty one.
CategoryLinesSkipEmpty(rs, completed, none_enabled) ==
    LET successful == SelectSeq(rs, LAMBDA r : r.success)
        failed == SelectSeq(rs, LAMBDA r : ~r.success)
    IN  [i \in 1..Len(successful) |->
            "- **" \o successful[i].service_name \o "**: " \o completed \o "\n"]
        \o [i \in 1..Len(failed) |->
            "- **" \o failed[i].service_name \o "**: " \o Str(failed[i].error) \o "\n"]

\* The lines of one category, the results rendered in the order of the list.
CategoryLinesInputOrder(rs, completed, none_enabled) ==
    IF rs # << >>
    THEN [i \in 1..Len(rs) |->
             "- **" \o rs[i].service_name \o "**: "
                    \o (IF rs[i].success THEN completed ELSE Str(rs[i].error)) \o "\n"]
    ELSE << none_enabled >>

\* The lines of one category of the fallback summary.
CategoryLines(rs, completed, none_enabled) ==
    IF rs # << >>
    THEN LET successful == SelectSeq(rs, LAMBDA r : r.success)
             failed == SelectSeq(rs, LAMBDA r : ~r.success)
             Done(r) == "- **" \o r.service_name \o "**: " \o completed \o "\n"
             Erred(r) == "- **" \o r.service_name \o "**: " \o Str(r.error) \o "\n"
         IN  [i \in 1..Len(successful) |-> Done(successful[i])]
             \o [i \in 1..Len(failed) |-> Erred(failed[i])]
    ELSE << none_enabled >>

_generate_fallback_summary(plagiarism, ai_detection, error) ==
    Join(  << "## Analysis Summary\n\n" >>
        \o (IF error # None /\ error[1] # ""
            THEN << "*Note: AI summary generation encountered an issue: "
                    \o error[1] \o "*\n\n" >>
            ELSE << >>)
        \o << "### Plagiarism Check\n" >>
        \o CategoryLines(plagiarism, "Check completed",
                         "No plagiarism checkers were enabled.\n")
        \o << "\n### AI Content Detection\n" >>
        \o CategoryLines(ai_detection, "Detection completed",
                         "No AI detectors were enabled.\n")
        \o << "\n### Recommendations\n" >>
        \o << "Review the detailed results from each service to understand the analysis findings.\n" >> )

CONTEXT_CHARS == 500

\* _prepare_results_context: the first 500 characters of the text and, per
\* category, each result's name with its payload or its error.
_prepare_results_context(txt, plagiarism, ai_detection) ==
    LET Line(r) == IF r.success
                   THEN [service_name |-> r.service_name, result |-> r.result,
                         error |-> None]
                   ELSE [service_name |-> r.service_name, result |-> EmptyDict,
                         error |-> r.error]
    IN  [text |-> SubSeq(txt, 1, IF Len(txt) < CONTEXT_CHARS THEN Len(txt)
                                 ELSE CONTEXT_CHARS),
         plagiarism |-> [i \in 1..Len(plagiarism) |-> Line(plagiarism[i])],
         ai_detection |-> [i \in 1..Len(ai_detection) |-> Line(ai_detection[i])]]

\* generate_summary once the language model has been called (openai_api_key is
\* not empty): the completion's content, or the fallback summary.
generate_summary_with_openai(plagiarism, ai_detection, llm) ==
    LET response_ == chat_completions_create(llm) IN
    IF response_.raised
    THEN IF IsInstance(response_.exc, "Exception")
         THEN Return(_generate_fallback_summary(plagiarism, ai_detection,
                                                Some(response_.exc.msg)))
         ELSE response_
    ELSE LET content == response_.value.content IN
         IF content = None \/ content[1] = ""
         THEN Return(_generate_fallback_summary(plagiarism, ai_detection, None))
         ELSE Return(content[1])

\* What the language model may do with the summary prompt.
SummaryLLMRemotes ==
    { Completes(Some("Nothing suspicious was found.")), Completes(None),
      Completes(Some("")), Refuses("Request timed out."), Refuses("") }
SummaryLLMRemotesInFlows ==
    { Completes(Some("Nothing suspicious was found.")), Refuses("Request timed out.") }

\* generate_summary without `if not openai_api_key`: the language model is called
\* whatever the credential.
generate_summary_without_guard ==
    /\ pc = "summary"
    /\ \E llm \in RemotesOf(flow, SummaryLLMRemotes, SummaryLLMRemotesInFlows) :
          LET got == generate_summary_with_openai(
                         plagiarism_results, ai_detection_results, llm)
          IN  /\ calls' = Append(calls,
                    Call("summary", "llm", 1,
                         [api_key |-> openai_config.api_key,
                          model |-> openai_config.model,
                          content |-> _prepare_results_context(
                              DispatchText, plagiarism_results,
                              ai_detection_results)],
                         llm))
              /\ IF got.raised
                 THEN pc' = "raised" /\ summary' = summary
                 ELSE pc' = "summarized" /\ summary' = Some(got.value)
    /\ UNCHANGED << suspended, flow, request, text, configVars, results, position, last_result,
                    rephrased_text, rephrase_result, plagiarism_results,
                    ai_detection_results, response >>

\* generate_summary(text, plagiarism_results, ai_detection_results, api_key, model),
\* called at main.py lines 97 and 171.
generate_summary ==
    /\ pc = "summary"
    /\ IF openai_config.api_key = ""
       THEN /\ summary' = Some(_generate_fallback_summary(
                                   plagiarism_results, ai_detection_results, None))
            /\ pc' = "summarized"
            /\ calls' = calls
       ELSE \E llm \in RemotesOf(flow, SummaryLLMRemotes, SummaryLLMRemotesInFlows) :
               LET got == generate_summary_with_openai(
                              plagiarism_results, ai_detection_results, llm)
               IN  /\ calls' = Append(calls,
                         Call("summary", "llm", 1,
                              [api_key |-> openai_config.api_key,
                               model |-> openai_config.model,
                               content |-> _prepare_results_context(
                                   DispatchText, plagiarism_results,
                                   ai_detection_results)],
                              llm))
                   /\ IF got.raised
                      THEN pc' = "raised" /\ summary' = summary
                      ELSE pc' = "summarized" /\ summary' = Some(got.value)
    /\ UNCHANGED << suspended, flow, request, text, configVars, results, position, last_result,
                    rephrased_text, rephrase_result, plagiarism_results,
                    ai_detection_results, response >>

\* The `text` and `openai_model` arguments generate_summary may be given.
SummaryTexts == { <<"H", "i">>, <<"O", "k">> }
SummaryModels == { "gpt-4", "gpt-4o" }

\* A caller that holds a summary calls generate_summary once more, with the same
\* result lists and credential and any text and model.
generate_summary_again ==
    /\ pc = "summarized"
    /\ flow = "summary"
    /\ \E txt \in SummaryTexts, model \in SummaryModels :
          /\ text' = Some(txt)
          /\ openai_config' = [openai_config EXCEPT !.model = model]
    /\ calls' = << >>
    /\ pc' = "summary"
    /\ UNCHANGED << suspended, flow, request, environ, plagiarism_services, ai_detector_services,
                    rephrasing_services, results, position, last_result,
                    rephrased_text, rephrase_result, plagiarism_results,
                    ai_detection_results, summary, response >>

----------------------------------------------------------------------------
(* PDF text extraction: backend/utils/pdf_parser.py *)

\* "\n\n".join(text_parts)
RECURSIVE JoinPages(_)
JoinPages(text_parts) ==
    IF Len(text_parts) <= 1
    THEN (IF text_parts = << >> THEN << >> ELSE text_parts[1])
    ELSE text_parts[1] \o <<"\n", "\n">> \o JoinPages(Tail(text_parts))

\* A PDF byte stream is what pdfplumber makes of it: None when it cannot be
\* opened, else the text of each page (None or a string).
extract_text_from_pdf(document) ==
    IF document = None
    THEN Raise(Exc("ValueError", "Failed to extract text from PDF: No /Root object!"))
    ELSE LET with_text ==
                 SelectSeq(document[1], LAMBDA page : page # None /\ page[1] # << >>)
             text_parts == [i \in 1..Len(with_text) |-> with_text[i][1]]
         IN  IF text_parts = << >>
             THEN Raise(Exc("ValueError",
                     "Failed to extract text from PDF: No text content found in PDF"))
             ELSE Return(JoinPages(text_parts))

----------------------------------------------------------------------------
(* Configuration: backend/config.py *)

Flag(b) == IF b = "yes" THEN [enabled |-> TRUE]
           ELSE IF b = "no" THEN [enabled |-> FALSE] ELSE EmptyDict
Entry(name, api_url, api_key, b) ==
    [name |-> name, api_url |-> api_url, api_key |-> api_key] @@ Flag(b)

\* The services.yaml catalogues: MaxPlag plagiarism checkers, MaxAI detectors and
\* MaxReph rephrasers (every second one routed to the language model), each
\* enabled, disabled or without an `enabled` key.
PlagiarismCatalog(b) ==
    [i \in 1..MaxPlag |->
        Entry("P" \o ToString(i), "https://p" \o ToString(i) \o ".example/check", "kp", b[i])]
AICatalog(b) ==
    [i \in 1..MaxAI |->
        Entry("D" \o ToString(i), "https://d" \o ToString(i) \o ".example/detect", "kd", b[i])]
RephrasingCatalog(b) ==
    [i \in 1..MaxReph |->
        IF i % 2 = 0
        THEN Entry("GPT" \o ToString(i), "openai", IF i % 4 = 0 THEN "sk-svc" ELSE "", b[i])
        ELSE Entry("R" \o ToString(i), "https://r" \o ToString(i) \o ".example/rephrase",
                   "kr", b[i])]

Flags(n) == [1..n -> {"yes", "no", "unset"}]
OpenAISections == { EmptyDict, [api_key |-> ""], [api_key |-> "sk-conf", model |-> "gpt-4o"] }

\* What load_config() finds: no file (None), a file without sections, or a file
\* with the three catalogues and an `openai` section.
ConfigSources ==
    { None, Some(EmptyDict) } \cup
    { Some([services |-> [plagiarism_checkers |-> PlagiarismCatalog(p),
                          ai_detectors |-> AICatalog(a),
                          rephrasing |-> RephrasingCatalog(r)],
            openai |-> o]) :
        p \in Flags(MaxPlag), a \in Flags(MaxAI), r \in Flags(MaxReph),
        o \in OpenAISections }

\* The first n entries of a catalogue enabled, the others disabled.
FirstEnabled(n, size) == [i \in 1..size |-> IF i <= n THEN "yes" ELSE "no"]

\* The configuration files explored while two requests are served: a file
\* without sections, and one that enables a plagiarism checker, an AI detector,
\* two rephrasers and the language model.
SharedConfigSources ==
    { Some(EmptyDict),
      Some([services |-> [plagiarism_checkers |-> PlagiarismCatalog(FirstEnabled(1, MaxPlag)),
                          ai_detectors |-> AICatalog(FirstEnabled(1, MaxAI)),
                          rephrasing |-> RephrasingCatalog(FirstEnabled(2, MaxReph))],
            openai |-> [api_key |-> "sk-conf", model |-> "gpt-4o"]]) }

\* The configuration files explored: all of them for a request served alone.
ConfigSourcesWith(other) == IF other = None THEN ConfigSources ELSE SharedConfigSources

\* get_enabled_services(config, service_type)
get_enabled_services(config, service_type) ==
    LET services == Get(Get(config, "services", EmptyDict), service_type, << >>)
    IN  SelectSeq(services, LAMBDA svc : Get(svc, "enabled", FALSE))

\* get_openai_config(config)
get_openai_config(config, env) ==
    LET openai == Get(config, "openai", EmptyDict)
    IN  [api_key |-> Get(openai, "api_key", Get(env, "OPENAI_API_KEY", "")),
         model |-> Get(openai, "model", "gpt-4")]

----------------------------------------------------------------------------
(* Request flows: backend/main.py *)

HttpError(status_code, detail) ==
    Some([status_code |-> status_code, detail |-> detail, body |-> EmptyDict])
HttpOk(body) == Some([status_code |-> 200, detail |-> "", body |-> body])

\* str.lower() on the characters file names are written with
Lower(c) ==
    CASE c = "P" -> "p" [] c = "D" -> "d" [] c = "F" -> "f" [] c = "A" -> "a"
      [] OTHER -> c

\* filename.lower().endswith(".pdf")
IsPdfName(filename) ==
    /\ Len(filename) >= 4
    /\ [i \in 1..4 |-> Lower(filename[Len(filename) - 4 + i])] = <<".", "p", "d", "f">>

\* `not text` alone
IsBlankNoStrip(txt) == txt = None \/ txt[1] = << >>

\* `not text or not text.strip()` on an Optional text
IsBlank(txt) == txt = None \/ txt[1] = << >> \/ Strip(txt[1]) = << >>

\* check_text with `if file is not None` replaced by `if file is not None and not
\* text`: a supplied text is checked and the file is left unread.
check_text_prefers_text ==
    /\ pc = "check_text"
    /\ LET file == IF request.text # None /\ request.text[1] # << >>
                   THEN None ELSE request.file
           extracted == IF file = None THEN Return(request.text[1])
                        ELSE extract_text_from_pdf(file[1].document)
           text_ == IF file = None THEN request.text
                    ELSE IF extracted.raised THEN None ELSE Some(extracted.value)
       IN  IF file # None /\ (file[1].filename = None \/ file[1].filename[1] = << >>
                              \/ ~IsPdfName(file[1].filename[1]))
           THEN /\ response' = HttpError(400, "Only PDF files are supported")
                /\ pc' = "done"
                /\ text' = request.text
           ELSE IF file # None /\ extracted.raised
           THEN /\ response' = HttpError(400, extracted.exc.msg)
                /\ pc' = "done"
                /\ text' = request.text
           ELSE IF IsBlank(text_)
           THEN /\ response' = HttpError(400,
                     "No text provided. Please provide text or upload a PDF file.")
                /\ pc' = "done"
                /\ text' = text_
           ELSE /\ response' = response
                /\ pc' = "load_config"
                /\ text' = text_
    /\ UNCHANGED << suspended, flow, request, configVars, results, position, last_result,
                    rephrased_text, rephrase_result, plagiarism_results,
                    ai_detection_results, summary, calls >>

\* check_text up to `# Load configuration`: the file is read, the text validated.
check_text ==
    /\ pc = "check_text"
    /\ LET file == request.file
           extracted == IF file = None THEN Return(request.text[1])
                        ELSE extract_text_from_pdf(file[1].document)
           text_ == IF file = None THEN request.text
                    ELSE IF extracted.raised THEN None ELSE Some(extracted.value)
       IN  IF file # None /\ (file[1].filename = None \/ file[1].filename[1] = << >>
                              \/ ~IsPdfName(file[1].filename[1]))
           THEN /\ response' = HttpError(400, "Only PDF files are supported")
                /\ pc' = "done"
                /\ text' = request.text
           ELSE IF file # None /\ extracted.raised
           THEN /\ response' = HttpError(400, extracted.exc.msg)
                /\ pc' = "done"
                /\ text' = request.text
           ELSE IF IsBlank(text_)
           THEN /\ response' = HttpError(400,
                     "No text provided. Please provide text or upload a PDF file.")
                /\ pc' = "done"
                /\ text' = text_
           ELSE /\ response' = response
                /\ pc' = "load_config"
                /\ text' = text_
    /\ UNCHANGED << suspended, flow, request, configVars, results, position, last_result,
                    rephrased_text, rephrase_result, plagiarism_results,
                    ai_detection_results, summary, calls >>

\* rephrase_text up to `# Load configuration`: the text is validated.
rephrase_text ==
    /\ pc = "rephrase_text"
    /\ text' = request.text
    /\ IF IsBlank(request.text)
       THEN /\ response' = HttpError(400, "No text provided for rephrasing.")
            /\ pc' = "done"
       ELSE /\ response' = response
            /\ pc' = "load_config"
    /\ UNCHANGED << suspended, flow, request, configVars, results, position, last_result,
                    rephrased_text, rephrase_result, plagiarism_results,
                    ai_detection_results, summary, calls >>

\* load_config() and the get_enabled_services / get_openai_config calls after it;
\* the configuration file is read at each request.
load_config ==
    /\ pc = "load_config"
    /\ \E source \in ConfigSourcesWith(suspended) :
          IF source = None
          THEN /\ response' = HttpError(500,
                    "Configuration file not found: config/services.yaml")
               /\ pc' = "done"
               /\ UNCHANGED << plagiarism_services, ai_detector_services,
                               rephrasing_services, openai_config >>
          ELSE /\ response' = response
               /\ rephrasing_services' =
                      IF flow = "rephrase"
                      THEN get_enabled_services(source[1], "rephrasing")
                      ELSE rephrasing_services
               /\ plagiarism_services' =
                      get_enabled_services(source[1], "plagiarism_checkers")
               /\ ai_detector_services' =
                      get_enabled_services(source[1], "ai_detectors")
               /\ openai_config' = get_openai_config(source[1], environ)
               /\ pc' = IF flow = "rephrase" THEN "rephraser" ELSE "plagiarism"
    /\ UNCHANGED << suspended, flow, request, text, environ, results, position, last_result,
                    rephrased_text, rephrase_result, plagiarism_results,
                    ai_detection_results, summary, calls >>

\* The two checks without the second
RephraseErrorIgnoresEmptyText(result, rephrased) ==
    IF ~result.success THEN Some("Rephrasing failed: " \o Str(result.error)) ELSE None

\* The two checks, the first without the reason
RephraseErrorWithoutReason(result, rephrased) ==
    IF ~result.success THEN Some("Rephrasing failed")
    ELSE IF rephrased = << >> THEN Some("Rephrasing returned empty text")
    ELSE None

\* `if not rephrase_result.success` and `if not rephrased_text`: the detail of the
\* HTTPException raised, None when neither raises.
RephraseError(result, rephrased) ==
    IF ~result.success THEN Some("Rephrasing failed: " \o Str(result.error))
    ELSE IF rephrased = << >> THEN Some("Rephrasing returned empty text")
    ELSE None

\* rephrase_text after rephrase_with_first_enabled has returned: the two checks
\* of its result.
rephrase_text_rephrased ==
    /\ pc = "rephrased"
    /\ LET detail == RephraseError(rephrase_result[1], rephrased_text) IN
       IF detail # None
       THEN /\ response' = HttpError(500, detail[1])
            /\ pc' = "done"
       ELSE /\ response' = response
            /\ pc' = "plagiarism"
    /\ UNCHANGED << suspended, flow, request, text, configVars, results, position, last_result,
                    rephrased_text, rephrase_result, plagiarism_results,
                    ai_detection_results, summary, calls >>

\* `return CheckResponse(...)` / `return RephraseResponse(...)`
respond ==
    /\ pc = "summarized"
    /\ response' =
          IF flow = "rephrase"
          THEN HttpOk([summary |-> summary[1],
                       rephrased_text |-> rephrased_text,
                       plagiarism_results |-> plagiarism_results,
                       ai_detection_results |-> ai_detection_results,
                       original_text |-> text[1]])
          ELSE HttpOk([summary |-> summary[1],
                       plagiarism_results |-> plagiarism_results,
                       ai_detection_results |-> ai_detection_results,
                       original_text |-> text[1]])
    /\ pc' = "done"
    /\ UNCHANGED << suspended, flow, request, text, configVars, results, position, last_result,
                    rephrased_text, rephrase_result, plagiarism_results,
                    ai_detection_results, summary, calls >>

----------------------------------------------------------------------------
(* Inputs. *)

SeqsUpTo(S, n) == UNION { [1..k -> S] : k \in 0..n }

ServiceConfig(name, api_url, api_key) ==
    [name |-> name, api_url |-> api_url, api_key |-> api_key, enabled |-> TRUE]
Unnamed(api_url, api_key) ==
    [api_url |-> api_url, api_key |-> api_key, enabled |-> TRUE]

PlagiarismConfigs ==
    { ServiceConfig("A", "https://a.example/check", "ka"),
      ServiceConfig("B", "https://b.example/check", ""),
      Unnamed("https://c.example/check", "kc") }

SampleText == <<"H", "i">>

\* The state an entry point starts from once its arguments are bound: nothing
\* dispatched, nothing called, no result yet.
Start(entry, at, req, txt, env, plagiarism, ai, rephrasing, openai) ==
    /\ flow = entry
    /\ pc = at
    /\ request = req
    /\ text = txt
    /\ environ = env
    /\ plagiarism_services = plagiarism
    /\ ai_detector_services = ai
    /\ rephrasing_services = rephrasing
    /\ openai_config = openai
    /\ results = << >>
    /\ position = 0
    /\ last_result = None
    /\ rephrased_text = << >>
    /\ rephrase_result = None
    /\ plagiarism_results = << >>
    /\ ai_detection_results = << >>
    /\ summary = None
    /\ response = None
    /\ calls = << >>

NoRequest == [text |-> None, file |-> None]
NoEnviron == [k \in {} |-> ""]
NoOpenAI == [api_key |-> "", model |-> "gpt-4"]

\* os.environ with and without OPENAI_API_KEY
Environs == { NoEnviron, [OPENAI_API_KEY |-> "sk-env"] }

----------------------------------------------------------------------------
(* The category dispatcher on its own: check_all_plagiarism_services(text, services) *)
(* for every list of up to MaxPlag service configurations.                           *)

InitDispatch ==
    \E services \in SeqsUpTo(PlagiarismConfigs, MaxPlag) :
        /\ Start("dispatch", "plagiarism", NoRequest, Some(SampleText), NoEnviron,
                 services, << >>, << >>, NoOpenAI)
        /\ suspended = None

NextDispatch ==
    \/ check_all_plagiarism_services_loop
    \/ check_all_plagiarism_services_return

SpecDispatch == InitDispatch /\ [][NextDispatch]_vars

----------------------------------------------------------------------------
(* The rephraser on its own: rephrase_with_first_enabled(text, services) for every *)
(* list of up to MaxReph service configurations.                                   *)

RephrasingConfigs ==
    { ServiceConfig("R1", "https://r1.example/rephrase", "k1"),
      ServiceConfig("R2", "https://r2.example/rephrase", ""),
      ServiceConfig("GPT", "openai", ""),
      ServiceConfig("GPT4", "openai", "sk-svc") }

InitRephraser ==
    \E services \in SeqsUpTo(RephrasingConfigs, MaxReph), env \in Environs :
        /\ Start("rephraser", "rephraser", NoRequest, Some(SampleText),
                 env, << >>, << >>, services, NoOpenAI)
        /\ suspended = None

NextRephraser ==
    \/ rephrase_with_first_enabled_none
    \/ rephrase_with_first_enabled_loop
    \/ rephrase_with_first_enabled_exhausted

SpecRephraser == InitRephraser /\ [][NextRephraser]_vars

----------------------------------------------------------------------------
(* The summary generator on its own: generate_summary(text, plagiarism_results,  *)
(* ai_detection_results, openai_api_key, openai_model) for every pair of lists   *)
(* of up to MaxPlag and MaxAI ServiceResults, called any number of times.        *)

\* ServiceResults as the dispatchers make them: successes with a payload,
\* failures with an error (the empty one included).
SucceededResult(service_name, service_type) ==
    ServiceResult(service_name, service_type, TRUE, ReportBody, None).value
FailedResult(service_name, service_type, error) ==
    ServiceResult(service_name, service_type, FALSE, DefaultResult, Some(error)).value
PlagiarismSamples ==
    { SucceededResult("A", "plagiarism"), SucceededResult("B", "plagiarism"),
      FailedResult("A", "plagiarism", "Request timed out"), FailedResult("C", "plagiarism", "") }
AISamples ==
    { SucceededResult("D", "ai_detection"), FailedResult("D", "ai_detection", "HTTP error: 500"),
      FailedResult("E", "ai_detection", "Request timed out") }

InitSummary ==
    \E plagiarism \in SeqsUpTo(PlagiarismSamples, MaxPlag),
       ai_detection \in SeqsUpTo(AISamples, MaxAI),
       api_key \in {"", "sk-conf"} :
        /\ flow = "summary"
        /\ pc = "summary"
        /\ request = NoRequest
        /\ text = Some(SampleText)
        /\ environ = NoEnviron
        /\ plagiarism_services = << >>
        /\ ai_detector_services = << >>
        /\ rephrasing_services = << >>
        /\ openai_config = [api_key |-> api_key, model |-> "gpt-4"]
        /\ results = << >>
        /\ position = 0
        /\ last_result = None
        /\ rephrased_text = << >>
        /\ rephrase_result = None
        /\ plagiarism_results = plagiarism
        /\ ai_detection_results = ai_detection
        /\ summary = None
        /\ response = None
        /\ calls = << >>
        /\ suspended = None

NextSummary ==
    \/ generate_summary
    \/ generate_summary_again

SpecSummary == InitSummary /\ [][NextSummary]_vars

----------------------------------------------------------------------------
(* The two request flows, /check and /rephrase, one request at a time. *)

Upload(filename, document) == Some([filename |-> filename, document |-> document])
Uploads ==
    { None,
      Upload(Some(<<"a", ".", "P", "D", "F">>),
             Some(<< Some(<<"P", "d">>), None, Some(<<"f">>) >>)),
      Upload(Some(<<"a", ".", "p", "d", "f">>), Some(<< Some(<<" ">>) >>)),
      Upload(Some(<<"a", ".", "p", "d", "f">>), Some(<< None, Some(<< >>) >>)),
      Upload(Some(<<"a", ".", "p", "d", "f">>), None),
      Upload(Some(<<"a", ".", "t", "x", "t">>), Some(<< Some(<<"P", "d">>) >>)),
      Upload(None, Some(<< Some(<<"P", "d">>) >>)) }

CheckRequests ==
    { [text |-> t, file |-> f] : t \in {None, Some(<<" ">>), Some(SampleText)},
                                 f \in Uploads }
RephraseRequests ==
    { [text |-> t, file |-> None] : t \in {Some(<< >>), Some(<<" ", "\n">>), Some(SampleText)} }

Init ==
    \E entry \in {"check", "rephrase"}, env \in Environs :
        \E req \in (IF entry = "check" THEN CheckRequests ELSE RephraseRequests) :
            /\ Start(entry, IF entry = "check" THEN "check_text" ELSE "rephrase_text",
                     req, None, env, << >>, << >>, << >>, NoOpenAI)
            /\ suspended = None

Next ==
    \/ check_text
    \/ rephrase_text
    \/ load_config
    \/ rephrase_with_first_enabled_none
    \/ rephrase_with_first_enabled_loop
    \/ rephrase_with_first_enabled_exhausted
    \/ rephrase_text_rephrased
    \/ check_all_plagiarism_services_loop
    \/ check_all_plagiarism_services_return
    \/ detect_all_ai_services_loop
    \/ detect_all_ai_services_return
    \/ generate_summary
    \/ respond

Spec == Init /\ [][Next]_vars

\* load_config() when config/services.yaml is absent: the FileNotFoundError is
\* answered with a 500 (main.py lines 81-85 and 137-141).
load_config_missing ==
    /\ pc = "load_config"
    /\ response' = HttpError(500, "Configuration file not found: config/services.yaml")
    /\ pc' = "done"
    /\ UNCHANGED << suspended, flow, request, text, configVars, results, position,
                    last_result, rephrased_text, rephrase_result, plagiarism_results,
                    ai_detection_results, summary, calls >>

\* A handler that has a step to take takes it: its code is sequential, its loops
\* run over the finite lists of the configuration, and every remote call returns
\* (the HTTP client is given HTTP_TIMEOUT, the language-model client has its own).
\* The read of the configuration returns as well: every outcome of load_config
\* leaves that step, so weak fairness of one of them forbids exactly the
\* behaviours that stay in it for ever, as weak fairness of load_config does.
SpecFair ==
    /\ Spec
    /\ WF_vars(pc # "load_config" /\ Next)
    /\ WF_vars(load_config_missing)

----------------------------------------------------------------------------
(* Two requests served by the same process: the event loop runs one handler at *)
(* a time and may turn to the other one whenever the running one waits.        *)

\* The locals of the request being served: everything but os.environ.
Locals ==
    [pc |-> pc, flow |-> flow, request |-> request, text |-> text,
     plagiarism_services |-> plagiarism_services,
     ai_detector_services |-> ai_detector_services,
     rephrasing_services |-> rephrasing_services,
     openai_config |-> openai_config, results |-> results, position |-> position,
     last_result |-> last_result, rephrased_text |-> rephrased_text,
     rephrase_result |-> rephrase_result, plagiarism_results |-> plagiarism_results,
     ai_detection_results |-> ai_detection_results, summary |-> summary,
     response |-> response, calls |-> calls]

\* The locals of a request that has just arrived.
Arrived(entry, req) ==
    [pc |-> IF entry = "check" THEN "check_text" ELSE "rephrase_text",
     flow |-> entry, request |-> req, text |-> None,
     plagiarism_services |-> << >>, ai_detector_services |-> << >>,
     rephrasing_services |-> << >>, openai_config |-> NoOpenAI, results |-> << >>,
     position |-> 0, last_result |-> None, rephrased_text |-> << >>,
     rephrase_result |-> None, plagiarism_results |-> << >>,
     ai_detection_results |-> << >>, summary |-> None, response |-> None,
     calls |-> << >>]

\* The event loop with the dispatcher's `results` kept at module level: the list
\* is shared by the two requests.
switch_shared_results ==
    /\ suspended # None
    /\ suspended' = Some(Locals)
    /\ pc' = suspended[1].pc
    /\ flow' = suspended[1].flow
    /\ request' = suspended[1].request
    /\ text' = suspended[1].text
    /\ plagiarism_services' = suspended[1].plagiarism_services
    /\ ai_detector_services' = suspended[1].ai_detector_services
    /\ rephrasing_services' = suspended[1].rephrasing_services
    /\ openai_config' = suspended[1].openai_config
    /\ position' = suspended[1].position
    /\ last_result' = suspended[1].last_result
    /\ rephrased_text' = suspended[1].rephrased_text
    /\ rephrase_result' = suspended[1].rephrase_result
    /\ plagiarism_results' = suspended[1].plagiarism_results
    /\ ai_detection_results' = suspended[1].ai_detection_results
    /\ summary' = suspended[1].summary
    /\ response' = suspended[1].response
    /\ calls' = suspended[1].calls
    /\ UNCHANGED << environ, results >>

\* The event loop turns to the other request: the running handler's locals are
\* set aside and the other handler goes on with its own.
switch ==
    /\ suspended # None
    /\ suspended' = Some(Locals)
    /\ pc' = suspended[1].pc
    /\ flow' = suspended[1].flow
    /\ request' = suspended[1].request
    /\ text' = suspended[1].text
    /\ plagiarism_services' = suspended[1].plagiarism_services
    /\ ai_detector_services' = suspended[1].ai_detector_services
    /\ rephrasing_services' = suspended[1].rephrasing_services
    /\ openai_config' = suspended[1].openai_config
    /\ results' = suspended[1].results
    /\ position' = suspended[1].position
    /\ last_result' = suspended[1].last_result
    /\ rephrased_text' = suspended[1].rephrased_text
    /\ rephrase_result' = suspended[1].rephrase_result
    /\ plagiarism_results' = suspended[1].plagiarism_results
    /\ ai_detection_results' = suspended[1].ai_detection_results
    /\ summary' = suspended[1].summary
    /\ response' = suspended[1].response
    /\ calls' = suspended[1].calls
    /\ UNCHANGED environ

\* The requests of the two clients.
OtherText == <<"Y", "o">>
ConcurrentRequests(entry) ==
    IF entry = "check"
    THEN { [text |-> Some(SampleText), file |-> None],
           [text |-> Some(<<" ">>), file |-> None] }
    ELSE { [text |-> Some(OtherText), file |-> None] }

InitConcurrent ==
    \E entry \in {"check", "rephrase"}, other \in {"check", "rephrase"} :
        \E req \in ConcurrentRequests(entry), other_req \in ConcurrentRequests(other) :
            /\ Start(entry, IF entry = "check" THEN "check_text" ELSE "rephrase_text",
                     req, None, NoEnviron, << >>, << >>, << >>, NoOpenAI)
            /\ suspended = Some(Arrived(other, other_req))

NextConcurrent ==
    \/ Next
    \/ switch

SpecConcurrent == InitConcurrent /\ [][NextConcurrent]_vars

----------------------------------------------------------------------------
(* Properties of the category dispatcher, under SpecDispatch. *)

\* The results the dispatch has produced so far: its local list while the loop
\* runs, the list its caller received once it has returned.
Dispatched == IF pc = "plagiarism" THEN results ELSE plagiarism_results

PlagiarismCalls == SelectSeq(calls, LAMBDA c : c.category = "plagiarism")

\* The outcome kinds of one outbound call.
TimesOut(remote) == remote.delay > HTTP_TIMEOUT
Rejects(remote) ==
    ~TimesOut(remote) /\ remote.fails = None /\ remote.status_code \notin 200..299
Succeeds(remote) ==
    /\ ~TimesOut(remote) /\ remote.fails = None
    /\ remote.status_code \in 200..299 /\ remote.body.type = "object"
Kind(remote) ==
    IF TimesOut(remote) THEN "timeout"
    ELSE IF Rejects(remote) THEN "remote-status-error"
    ELSE IF Succeeds(remote) THEN "success" ELSE "other"

\* C1: a category dispatch returns exactly one ServiceResult per input service, in
\* input order, each carrying its service's name (the default name "Unknown
\* Service" for a configuration without one), whatever the calls' outcomes; the
\* empty list returns the empty list, without raising and without a remote call.
C1_OneResultPerService ==
    /\ pc = "returned" =>
          /\ Len(plagiarism_results) = Len(plagiarism_services)
          /\ \A i \in 1..Len(plagiarism_services) :
                plagiarism_results[i].service_name =
                    IF "name" \in DOMAIN plagiarism_services[i]
                    THEN plagiarism_services[i].name
                    ELSE "Unknown Service"
    /\ plagiarism_services = << >> =>
          /\ pc # "raised"
          /\ calls = << >>
          /\ pc = "returned" => plagiarism_results = << >>

\* A dispatch of two differently named services has returned, the first call
\* having succeeded and the second having failed.
C1_Witness ==
    /\ pc = "returned"
    /\ Len(plagiarism_services) = 2
    /\ Get(plagiarism_services[1], "name", "") = "B"
    /\ Get(plagiarism_services[2], "name", "") = "A"
    /\ plagiarism_results[1].success
    /\ ~plagiarism_results[2].success

\* C3: no exception escapes the dispatcher: whatever the outbound call does
\* (timeout, non-2xx status, network failure, malformed or non-mapping body),
\* check_plagiarism returns a ServiceResult, with success=false and an error
\* string unless the call succeeded, so the dispatch never raises.
C3_NoExceptionEscapes ==
    /\ pc # "raised"
    /\ Len(Dispatched) = Len(PlagiarismCalls)
    /\ \A i \in 1..Len(PlagiarismCalls) :
          ~Succeeds(PlagiarismCalls[i].remote) =>
              /\ ~Dispatched[i].success
              /\ Dispatched[i].error # None

\* A dispatch has returned after one service answered with a body that is no
\* mapping and another with a body that is no JSON.
C3_Witness ==
    /\ pc = "returned"
    /\ \E i, j \in 1..Len(calls) :
          /\ calls[i].remote = Responds(200, JsonArray)
          /\ calls[j].remote = Responds(200, JsonInvalid)

\* C4: every ServiceResult of the dispatcher has success=true => error is None,
\* and success=false => the payload is the empty mapping and error is a
\* non-empty string.
C4_ResultInvariants ==
    \A i \in 1..Len(Dispatched) :
        LET r == Dispatched[i] IN
        /\ r.success => r.error = None
        /\ ~r.success => r.result = EmptyDict /\ r.error # None /\ r.error[1] # ""

\* C5: a call that exceeds the 30-unit timeout yields success=false, the error
\* "Request timed out" and an empty payload; a non-2xx status yields success=false
\* with the error "HTTP error: <status code>"; results of different failure kinds
\* (timeout, remote-status-error, other) never carry the same error.
C5_FailureKinds ==
    /\ Len(Dispatched) = Len(PlagiarismCalls)
    /\ \A i \in 1..Len(PlagiarismCalls) :
          LET remote == PlagiarismCalls[i].remote
              r == Dispatched[i]
          IN  /\ TimesOut(remote) =>
                    /\ ~r.success
                    /\ r.error = Some("Request timed out")
                    /\ r.result = EmptyDict
              /\ Rejects(remote) =>
                    /\ ~r.success
                    /\ r.error = Some("HTTP error: " \o ToString(remote.status_code))
                    /\ r.result = EmptyDict
    /\ \A i, j \in 1..Len(PlagiarismCalls) :
          /\ Kind(PlagiarismCalls[i].remote) # "success"
          /\ Kind(PlagiarismCalls[j].remote) # "success"
          /\ Kind(PlagiarismCalls[i].remote) # Kind(PlagiarismCalls[j].remote)
          => Dispatched[i].error # Dispatched[j].error

\* A dispatch has returned after one call timed out and the other was rejected
\* with status 404.
C5_Witness ==
    /\ pc = "returned"
    /\ Len(calls) = 2
    /\ TimesOut(calls[1].remote)
    /\ Rejects(calls[2].remote)
    /\ calls[2].remote.status_code = 404

----------------------------------------------------------------------------
(* Properties of the ordered fallback rephraser, under SpecRephraser. *)

RephrasingCalls == SelectSeq(calls, LAMBDA c : c.category = "rephrasing")

\* What the provider of one recorded rephrasing call returned.
Attempted(call) ==
    rephrase_text_with_service(
        text[1], rephrasing_services[call.index], environ,
        IF call.via = "http" THEN call.remote ELSE IdleRemote,
        IF call.via = "llm" THEN call.remote ELSE IdleLLM).value

RephraserReturned == pc \in {"returned", "rephrased"}

\* C6: the rephraser tries the services strictly in configuration order and stops
\* at the first success: the k-th call is to service k and every earlier call
\* failed; and when the last call succeeded, the pair returned is that provider's
\* rephrased text and ServiceResult.
C6_FirstSuccessWins ==
    /\ \A k \in 1..Len(RephrasingCalls) :
          /\ RephrasingCalls[k].index = k
          /\ \A j \in 1..(k - 1) : ~Attempted(RephrasingCalls[j]).result.success
    /\ \A k \in 1..Len(RephrasingCalls) :
          Attempted(RephrasingCalls[k]).result.success =>
              /\ k = Len(RephrasingCalls)
              /\ RephraserReturned
              /\ rephrased_text = Attempted(RephrasingCalls[k]).rephrased
              /\ rephrase_result = Some(Attempted(RephrasingCalls[k]).result)

\* [A fails, B succeeds, C]: the rephraser has returned B's success after two
\* calls, the third service never having been called.
C6_Witness ==
    /\ pc = "returned"
    /\ Len(rephrasing_services) = 3
    /\ Len(calls) = 2
    /\ ~Attempted(calls[1]).result.success
    /\ rephrase_result # None
    /\ rephrase_result[1].success
    /\ rephrase_result[1].service_name = rephrasing_services[2].name
    /\ rephrased_text = Reworded

\* C7: if every service of a non-empty list fails, the rephraser has called them
\* all and returns the empty string with the ServiceResult of the last service in
\* configuration order.
C7_AllFailReturnsLast ==
    ( /\ RephraserReturned
      /\ rephrasing_services # << >>
      /\ \A k \in 1..Len(RephrasingCalls) :
            ~Attempted(RephrasingCalls[k]).result.success )
    => /\ Len(RephrasingCalls) = Len(rephrasing_services)
       /\ RephrasingCalls[Len(RephrasingCalls)].index = Len(rephrasing_services)
       /\ rephrased_text = << >>
       /\ rephrase_result = Some(Attempted(RephrasingCalls[Len(RephrasingCalls)]).result)

\* [A fails, B fails] with different errors: the rephraser has returned B's.
C7_Witness ==
    /\ pc = "returned"
    /\ Len(rephrasing_services) = 2
    /\ Len(calls) = 2
    /\ Attempted(calls[1]).result.error = Some("Request timed out")
    /\ rephrased_text = << >>
    /\ rephrase_result # None
    /\ ~rephrase_result[1].success
    /\ rephrase_result[1].error = Some("HTTP error: 500")

\* C8 as stated: for the empty list the rephraser returns the empty string and a
\* failed ServiceResult whose error equals "no rephrasing services enabled",
\* without any remote call.
C8_Original ==
    (RephraserReturned /\ rephrasing_services = << >>) =>
        /\ rephrased_text = << >>
        /\ rephrase_result # None
        /\ ~rephrase_result[1].success
        /\ rephrase_result[1].error = Some("no rephrasing services enabled")
        /\ calls = << >>

\* C8, amended: for the empty list the rephraser returns the empty string and a
\* failed ServiceResult whose error equals "No rephrasing services enabled",
\* without any remote call.
C8_EmptyListFails ==
    (RephraserReturned /\ rephrasing_services = << >>) =>
        /\ rephrased_text = << >>
        /\ rephrase_result # None
        /\ ~rephrase_result[1].success
        /\ rephrase_result[1].result = EmptyDict
        /\ rephrase_result[1].error = Some("No rephrasing services enabled")
        /\ calls = << >>

\* The rephraser has returned for the empty list.
C8_Witness ==
    /\ pc = "returned"
    /\ rephrasing_services = << >>
    /\ rephrase_result # None

----------------------------------------------------------------------------
(* Properties of the request flows, under Spec. *)

AICalls == SelectSeq(calls, LAMBDA c : c.category = "ai_detection")
DetectedAI == IF pc = "ai_detection" THEN results ELSE ai_detection_results

Responded(status_code) ==
    pc = "done" /\ response # None /\ response[1].status_code = status_code

\* C2: within a category dispatch the ServiceResult at position i is what service
\* i's own call produced, whatever the other calls did; a failed call stops
\* neither the calls after it (once the dispatch is over every service has been
\* called, in order) nor the flow (a request that reached a dispatch is answered
\* with its results, never with an error).
C2_ServicesIsolated ==
    /\ pc # "raised"
    /\ Len(Dispatched) = Len(PlagiarismCalls)
    /\ \A i \in 1..Len(PlagiarismCalls) :
          /\ PlagiarismCalls[i].index = i
          /\ Dispatched[i] = check_plagiarism(DispatchText, plagiarism_services[i],
                                              PlagiarismCalls[i].remote).value
    /\ Len(DetectedAI) = Len(AICalls)
    /\ \A i \in 1..Len(AICalls) :
          /\ AICalls[i].index = i
          /\ DetectedAI[i].service_name = Get(ai_detector_services[i], "name", "")
          /\ DetectedAI[i].success = Succeeds(AICalls[i].remote)
    /\ pc \in {"ai_detection", "summary", "summarized"} =>
          Len(PlagiarismCalls) = Len(plagiarism_services)
    /\ pc \in {"summary", "summarized"} => Len(AICalls) = Len(ai_detector_services)
    /\ (pc = "done" /\ (PlagiarismCalls # << >> \/ AICalls # << >>)) =>
          /\ Responded(200)
          /\ Len(PlagiarismCalls) = Len(plagiarism_services)
          /\ Len(AICalls) = Len(ai_detector_services)
          /\ response[1].body.plagiarism_results = plagiarism_results
          /\ response[1].body.ai_detection_results = ai_detection_results

\* A check request is answered after its first plagiarism service failed and its
\* second succeeded.
C2_Witness ==
    /\ flow = "check"
    /\ Responded(200)
    /\ Len(plagiarism_services) = 2
    /\ ~plagiarism_results[1].success
    /\ plagiarism_results[2].success
    /\ Len(ai_detection_results) = 1

\* C9: in the rephrase flow, once the rephraser has returned a failed result or
\* empty text, the flow ends in an error response, and no plagiarism dispatch, no
\* AI-detection dispatch and no summary generation is started.
C9_FailedRephraseAborts ==
    ( /\ flow = "rephrase"
      /\ rephrase_result # None
      /\ (~rephrase_result[1].success \/ rephrased_text = << >>) )
    => /\ pc \in {"rephrased", "done"}
       /\ pc = "done" => Responded(500)
       /\ \A i \in 1..Len(calls) : calls[i].category = "rephrasing"
       /\ plagiarism_results = << >>
       /\ ai_detection_results = << >>
       /\ summary = None

\* A rephrase request has been rejected after a provider succeeded with empty
\* text, with a plagiarism checker, an AI detector and a language-model
\* credential configured.
C9_Witness ==
    /\ flow = "rephrase"
    /\ Responded(500)
    /\ rephrase_result # None
    /\ rephrase_result[1].success
    /\ rephrased_text = << >>
    /\ plagiarism_services # << >>
    /\ ai_detector_services # << >>
    /\ openai_config.api_key # ""

\* C10 as stated: when the rephrase flow aborts on a failed rephrasing, the error
\* detail equals the error string of the rephraser's ServiceResult.
C10_Original ==
    ( /\ flow = "rephrase"
      /\ pc = "done"
      /\ rephrase_result # None
      /\ ~rephrase_result[1].success )
    => /\ response # None
       /\ response[1].detail = Str(rephrase_result[1].error)

\* The error a rephraser that did not succeed reports: the fixed text of the
\* empty list, else the error of the last service in configuration order.
RephraserFailure ==
    IF rephrasing_services = << >>
    THEN "No rephrasing services enabled"
    ELSE Str(Attempted(RephrasingCalls[Len(rephrasing_services)]).result.error)

\* C10, amended: when the rephrase flow aborts on a failed rephrasing, the error
\* is a 500 whose detail is "Rephrasing failed: " followed by the error string of
\* the rephraser's ServiceResult, unchanged: the last provider's error, or "No
\* rephrasing services enabled" when none is enabled.
C10_DetailForwardsReason ==
    ( /\ flow = "rephrase"
      /\ pc = "done"
      /\ rephrase_result # None
      /\ ~rephrase_result[1].success )
    => /\ Responded(500)
       /\ response[1].detail = "Rephrasing failed: " \o Str(rephrase_result[1].error)
       /\ Str(rephrase_result[1].error) = RephraserFailure

\* A rephrase request has been rejected after its two providers failed, the
\* second with status 500.
C10_Witness ==
    /\ flow = "rephrase"
    /\ Responded(500)
    /\ Len(rephrasing_services) = 2
    /\ Len(calls) = 2
    /\ response[1].detail = "Rephrasing failed: HTTP error: 500"

\* The calls of the request that carry a text to a checker or a detector, and the
\* summary calls.
CheckerCalls == SelectSeq(calls, LAMBDA c : c.category \in {"plagiarism", "ai_detection"})
SummaryCalls == SelectSeq(calls, LAMBDA c : c.category = "summary")

\* What the rephraser handed back to the flow: the output of the provider called
\* last.
RephraserOutput == Attempted(RephrasingCalls[Len(RephrasingCalls)]).rephrased

\* The first 500 characters of a text
First500(txt) == SubSeq(txt, 1, IF Len(txt) < 500 THEN Len(txt) ELSE 500)

\* C11: in the rephrase flow, once rephrasing has succeeded with non-empty text,
\* every plagiarism call and every AI-detection call carries the rephrased text,
\* the summary prompt is built from the rephrased text, none of them carries the
\* original text, and the response has original_text equal to the request's text
\* and rephrased_text equal to the rephraser's output.
C11_RephrasedTextChecked ==
    flow = "rephrase" =>
        /\ \A i \in 1..Len(CheckerCalls) :
              /\ CheckerCalls[i].request.json.text = RephraserOutput
              /\ CheckerCalls[i].request.json.text # request.text[1]
        /\ \A i \in 1..Len(SummaryCalls) :
              /\ SummaryCalls[i].request.content.text = First500(RephraserOutput)
              /\ SummaryCalls[i].request.content.text # First500(request.text[1])
        /\ Responded(200) =>
              /\ RephraserOutput # << >>
              /\ response[1].body.original_text = request.text[1]
              /\ response[1].body.rephrased_text = RephraserOutput

\* A rephrase request has been answered after a plagiarism call, an AI-detection
\* call and a summary call, the rephrased text differing from the original.
C11_Witness ==
    /\ flow = "rephrase"
    /\ Responded(200)
    /\ PlagiarismCalls # << >>
    /\ AICalls # << >>
    /\ SummaryCalls # << >>
    /\ response[1].body.rephrased_text = Reworded
    /\ response[1].body.original_text = SampleText

\* What the two category dispatches of the request return: one ServiceResult per
\* enabled service, made from that service's own call.
PlagiarismReturned ==
    [i \in 1..Len(plagiarism_services) |->
        check_plagiarism(DispatchText, plagiarism_services[i],
                         PlagiarismCalls[i].remote).value]
AIReturned ==
    [i \in 1..Len(ai_detector_services) |->
        detect_ai(DispatchText, ai_detector_services[i], AICalls[i].remote).value]

\* Both category dispatches have completed: every enabled service has been called.
DispatchesCompleted ==
    /\ Len(PlagiarismCalls) = Len(plagiarism_services)
    /\ Len(AICalls) = Len(ai_detector_services)

\* The positions in the history of the calls of a category.
Positions(category) == { k \in 1..Len(calls) : calls[k].category = category }

\* C12: in both flows summary generation starts only after both category
\* dispatches have completed (a summary call comes after every plagiarism and
\* AI-detection call, all services having been called), it receives exactly the
\* two result sequences the dispatches returned, and the response carries those
\* same sequences, unchanged by summary generation.
C12_SummaryAfterDispatches ==
    /\ \A k \in Positions("summary") :
          /\ DispatchesCompleted
          /\ \A j \in Positions("plagiarism") \cup Positions("ai_detection") : j < k
          /\ calls[k].request.content =
                 _prepare_results_context(DispatchText, PlagiarismReturned, AIReturned)
    /\ (pc \in {"summary", "summarized"} \/ summary # None) =>
          /\ DispatchesCompleted
          /\ plagiarism_results = PlagiarismReturned
          /\ ai_detection_results = AIReturned
    /\ (summary # None /\ SummaryCalls = << >>) =>
          summary[1] = _generate_fallback_summary(PlagiarismReturned, AIReturned, None)
    /\ Responded(200) =>
          /\ summary # None
          /\ response[1].body.summary = summary[1]
          /\ response[1].body.plagiarism_results = PlagiarismReturned
          /\ response[1].body.ai_detection_results = AIReturned

\* A request has been answered with a language-model summary made after two
\* plagiarism calls, the first of which failed, and one AI-detection call.
C12_Witness ==
    /\ Responded(200)
    /\ Len(PlagiarismCalls) = 2
    /\ Len(AICalls) = 1
    /\ calls[Len(calls)].category = "summary"
    /\ ~response[1].body.plagiarism_results[1].success
    /\ response[1].body.summary = "Nothing suspicious was found."

\* A text that is empty or made of whitespace only.
OnlyWhitespace(t) == \A i \in 1..Len(t) : t[i] \in {" ", "\n", "\t"}

\* The input errors of the two flows, read off the request.
NoInput == request.text = None /\ request.file = None
UnsupportedFile ==
    /\ request.file # None
    /\ \/ request.file[1].filename = None
       \/ ~IsPdfName(request.file[1].filename[1])
ExtractionFails ==
    /\ request.file # None
    /\ extract_text_from_pdf(request.file[1].document).raised
TextAfterExtraction ==
    IF request.file = None THEN request.text
    ELSE Some(extract_text_from_pdf(request.file[1].document).value)
InputError ==
    IF flow = "check"
    THEN \/ NoInput
         \/ UnsupportedFile
         \/ ExtractionFails
         \/ TextAfterExtraction = None
         \/ OnlyWhitespace(TextAfterExtraction[1])
    ELSE request.text = None \/ OnlyWhitespace(request.text[1])

\* No configuration has been loaded for the request.
ConfigNotLoaded ==
    /\ pc # "load_config"
    /\ plagiarism_services = << >>
    /\ ai_detector_services = << >>
    /\ rephrasing_services = << >>
    /\ openai_config = NoOpenAI

\* C13: a request with an input error (check flow: no text and no file, a file
\* that is not a PDF, a failed extraction, or text that is empty or whitespace
\* only after extraction; rephrase flow: empty or whitespace-only text) is
\* rejected with a 400 before the configuration is loaded, and no remote call of
\* any kind is made for it.
C13_InputErrorRejected ==
    InputError =>
        /\ pc \in {"check_text", "rephrase_text", "done"}
        /\ ConfigNotLoaded
        /\ calls = << >>
        /\ pc = "done" => Responded(400)

\* A check request that came with a text and a PDF holding whitespace only has
\* been rejected.
C13_Witness ==
    /\ flow = "check"
    /\ Responded(400)
    /\ request.text = Some(SampleText)
    /\ request.file # None
    /\ ~UnsupportedFile
    /\ ~ExtractionFails
    /\ OnlyWhitespace(TextAfterExtraction[1])

----------------------------------------------------------------------------
(* Properties of the summary generator, under SpecSummary. *)

\* The deterministic template render of the two result lists, without annotation.
Template == _generate_fallback_summary(plagiarism_results, ai_detection_results, None)

\* C14: with an empty credential generate_summary makes no language-model call
\* and returns exactly the template render of the two result lists, without
\* annotation; and a further call with the same lists returns the same summary,
\* whatever text and model it is given.
C14_NoCredentialIsTemplate ==
    /\ []( (openai_config.api_key = "" /\ pc = "summarized") =>
              /\ calls = << >>
              /\ summary = Some(Template) )
    /\ [][ (openai_config.api_key = "" /\ pc = "summary" /\ summary # None) =>
              summary' = summary ]_vars

\* generate_summary has returned for the second time at least (its text and model
\* are no longer those of the first call), with an empty credential and a result
\* list holding a failure.
C14_Witness ==
    /\ flow = "summary"
    /\ pc = "summarized"
    /\ openai_config.api_key = ""
    /\ text # Some(SampleText)
    /\ openai_config.model = "gpt-4o"
    /\ \E i \in 1..Len(plagiarism_results) : ~plagiarism_results[i].success
    /\ summary # None

\* The language-model call of the invocation, and whether it failed: it raised, or
\* its completion holds no text.
SummaryCall == calls[Len(calls)].remote
LLMFailed(llm) == llm.raises # None \/ llm.content = None \/ llm.content[1] = ""

\* C15: with a non-empty credential no failure of the language-model call
\* (timeout, authentication failure, any exception, empty response) propagates
\* out of generate_summary, and the summary returned is the template render of
\* the two result lists plus a one-line annotation stating the failure reason
\* (so never the bare template).
C15_FailureIsAnnotated ==
    /\ pc # "raised"
    /\ ( /\ pc = "summarized"
         /\ openai_config.api_key # ""
         /\ calls # << >>
         /\ LLMFailed(SummaryCall) )
       => /\ summary # None
          /\ summary # Some(Template)
          /\ SummaryCall.raises # None =>
                summary = Some(_generate_fallback_summary(
                                   plagiarism_results, ai_detection_results,
                                   SummaryCall.raises))

\* generate_summary has returned the fallback summary: the credential is empty, or
\* the language-model call failed.
FallbackProduced ==
    /\ flow = "summary"
    /\ pc = "summarized"
    /\ openai_config.api_key = "" \/ LLMFailed(SummaryCall)

\* The annotation of the summary, when there is one.
Annotation ==
    IF calls # << >> /\ SummaryCall.raises # None /\ SummaryCall.raises[1] # ""
    THEN << "*Note: AI summary generation encountered an issue: "
            \o SummaryCall.raises[1] \o "*\n\n" >>
    ELSE << >>

\* The line of one ServiceResult: its name with the completion text, or with its
\* error string.
ResultLine(r, completed) ==
    "- **" \o r.service_name \o "**: "
           \o (IF r.success THEN completed ELSE r.error[1]) \o "\n"

\* The ways to render a category: the "none enabled" line for the empty list,
\* else one line per ServiceResult, in some order.
Orders(n) ==
    { f \in [1..n -> 1..n] : \A i, j \in 1..n : i # j => f[i] # f[j] }
CategoryRenders(rs, completed, none_enabled) ==
    IF rs = << >> THEN { << none_enabled >> }
    ELSE { [i \in 1..Len(rs) |-> ResultLine(rs[f[i]], completed)] :
               f \in Orders(Len(rs)) }

\* The fallback summary made of the given category lines.
Rendered(plagiarism_lines, ai_lines) ==
    Join(   << "## Analysis Summary\n\n" >>
         \o Annotation
         \o << "### Plagiarism Check\n" >>
         \o plagiarism_lines
         \o << "\n### AI Content Detection\n" >>
         \o ai_lines
         \o << "\n### Recommendations\n",
               "Review the detailed results from each service to understand the analysis findings.\n" >> )

\* C16 as stated: the fallback summary has, for each category, one line per
\* ServiceResult, a successful one rendering its service name with "Check
\* completed" and a failed one its service name with its error string, or the
\* "none enabled" line of the category when its list is empty, and it ends with
\* the static recommendations text.
C16_Original ==
    FallbackProduced =>
        \E plagiarism_lines \in CategoryRenders(plagiarism_results, "Check completed",
                                   "No plagiarism checkers were enabled.\n"),
           ai_lines \in CategoryRenders(ai_detection_results, "Check completed",
                                   "No AI detectors were enabled.\n") :
            summary = Some(Rendered(plagiarism_lines, ai_lines))

\* C16, amended: as above, a successful plagiarism result rendering its service
\* name with "Check completed" and a successful AI-detection result its service
\* name with "Detection completed".
C16_OneLinePerResult ==
    FallbackProduced =>
        \E plagiarism_lines \in CategoryRenders(plagiarism_results, "Check completed",
                                   "No plagiarism checkers were enabled.\n"),
           ai_lines \in CategoryRenders(ai_detection_results, "Detection completed",
                                   "No AI detectors were enabled.\n") :
            summary = Some(Rendered(plagiarism_lines, ai_lines))

\* The fallback summary has been produced for a plagiarism list with a success and
\* a failure and an AI-detection list with a success.
C16_Witness ==
    /\ FallbackProduced
    /\ \E i, j \in 1..Len(plagiarism_results) :
          plagiarism_results[i].success /\ ~plagiarism_results[j].success
    /\ \E i \in 1..Len(ai_detection_results) : ai_detection_results[i].success

----------------------------------------------------------------------------
(* Properties of the request flows, under Spec (continued). *)

\* A check request with non-empty text has been answered, no plagiarism checker
\* and no AI detector being enabled.
NothingEnabled ==
    /\ flow = "check"
    /\ Responded(200)
    /\ plagiarism_services = << >>
    /\ ai_detector_services = << >>

\* The fallback summary of two empty categories, with an annotation or without.
NothingEnabledSummary(annotation) ==
    "## Analysis Summary\n\n" \o annotation
    \o "### Plagiarism Check\nNo plagiarism checkers were enabled.\n"
    \o "\n### AI Content Detection\nNo AI detectors were enabled.\n"
    \o "\n### Recommendations\n"
    \o "Review the detailed results from each service to understand the analysis findings.\n"

Annotations ==
    { "" } \cup
    { "*Note: AI summary generation encountered an issue: " \o calls[k].remote.raises[1]
      \o "*\n\n" : k \in { i \in Positions("summary") : calls[i].remote.raises # None } }

\* C17 as stated: a check request with non-empty text and no enabled service is
\* answered with empty plagiarism and AI-detection lists and the fallback summary
\* saying "No plagiarism checkers were enabled" and "No AI detectors were
\* enabled", whether a language-model credential is configured or not.
C17_Original ==
    NothingEnabled =>
        /\ response[1].body.plagiarism_results = << >>
        /\ response[1].body.ai_detection_results = << >>
        /\ \E annotation \in Annotations :
              response[1].body.summary = NothingEnabledSummary(annotation)

\* C17, amended: such a request is answered with empty plagiarism and
\* AI-detection lists; its summary is that fallback summary when no
\* language-model credential is configured (no call being made then) or when
\* the language-model call fails or returns no text, and it is the language
\* model's text otherwise.
C17_NothingEnabled ==
    NothingEnabled =>
        /\ response[1].body.plagiarism_results = << >>
        /\ response[1].body.ai_detection_results = << >>
        /\ openai_config.api_key = "" =>
              /\ calls = << >>
              /\ response[1].body.summary = NothingEnabledSummary("")
        /\ openai_config.api_key # "" =>
              /\ Len(calls) = 1
              /\ calls[1].category = "summary"
              /\ LLMFailed(calls[1].remote) =>
                    \E annotation \in Annotations :
                        response[1].body.summary = NothingEnabledSummary(annotation)
              /\ ~LLMFailed(calls[1].remote) =>
                    response[1].body.summary = calls[1].remote.content[1]

\* A check request for a non-empty text has been answered with the fallback
\* summary, nothing being enabled and no credential being configured.
C17_Witness ==
    /\ NothingEnabled
    /\ request.text = Some(SampleText)
    /\ request.file = None
    /\ openai_config.api_key = ""
    /\ response[1].body.summary = NothingEnabledSummary("")

\* C18: within one request every provider is attempted at most once (no two
\* calls of the history go to the same service of the same category, and at most
\* one summary call is made), and the rephrasing calls are strictly sequential:
\* the k-th goes to the k-th service and is made only once the call before it
\* has returned a failure.
C18_AtMostOnce ==
    /\ \A i, j \in 1..Len(calls) :
          (calls[i].category = calls[j].category /\ calls[i].index = calls[j].index)
              => i = j
    /\ Len(PlagiarismCalls) <= Len(plagiarism_services)
    /\ Len(AICalls) <= Len(ai_detector_services)
    /\ Len(RephrasingCalls) <= Len(rephrasing_services)
    /\ Len(SummaryCalls) <= 1
    /\ \A k \in 1..Len(RephrasingCalls) :
          /\ calls[k] = RephrasingCalls[k]
          /\ RephrasingCalls[k].index = k
          /\ k > 1 => ~Attempted(RephrasingCalls[k - 1]).result.success

\* A rephrase request has been answered after its first rephrasing provider
\* failed and its second succeeded, and after one of its two plagiarism services
\* failed.
C18_Witness ==
    /\ flow = "rephrase"
    /\ Responded(200)
    /\ Len(RephrasingCalls) = 2
    /\ Len(PlagiarismCalls) = 2
    /\ ~plagiarism_results[1].success
    /\ Len(AICalls) = 1
    /\ Len(SummaryCalls) = 1

----------------------------------------------------------------------------
(* Properties of the ordered fallback rephraser, under SpecRephraser (continued). *)

\* C19: an outbound rephrasing call answered with a 2xx status and a JSON object
\* is a success whatever the object's keys: the rephraser stops there (it is the
\* last call) and returns the provider's success=true result with the value of
\* rephrased_text if the object has that key, else the value of text if it has
\* that one, else the empty string.
C19_MissingKeysSucceed ==
    \A k \in 1..Len(RephrasingCalls) :
        LET call == RephrasingCalls[k]
            payload == call.remote.body.members
        IN  (call.via = "http" /\ Succeeds(call.remote)) =>
                /\ k = Len(RephrasingCalls)
                /\ RephraserReturned
                /\ rephrase_result # None
                /\ rephrase_result[1].success
                /\ rephrase_result[1].error = None
                /\ rephrase_result[1].result = payload
                /\ rephrased_text =
                       IF "rephrased_text" \in DOMAIN payload THEN payload.rephrased_text
                       ELSE IF "text" \in DOMAIN payload THEN payload.text
                       ELSE << >>

\* The rephraser has returned the empty string and a success after its first
\* provider answered with an object holding neither key, two more providers
\* being enabled after it.
C19_Witness ==
    /\ pc = "returned"
    /\ Len(rephrasing_services) = 3
    /\ Len(calls) = 1
    /\ calls[1].remote = Responds(200, JsonObject(EmptyDict))
    /\ rephrased_text = << >>
    /\ rephrase_result # None
    /\ rephrase_result[1].success

\* C20: a rephrasing service whose endpoint is "openai" is routed to the language
\* model and never makes an outbound HTTP call (and no other service is routed
\* there); the credential of its call is the service's own when that is not
\* empty, else the process-wide OPENAI_API_KEY (empty when unset); and its
\* outcome takes part in the fallback like any other: after a failure the next
\* service is called, or the failure is returned when it was the last, and a
\* success is returned at once.
C20_InternalLLMRoute ==
    \A k \in 1..Len(RephrasingCalls) :
        LET call == RephrasingCalls[k]
            service == rephrasing_services[call.index]
        IN  /\ call.via = (IF service.api_url = "openai" THEN "llm" ELSE "http")
            /\ call.via = "llm" =>
                  /\ call.request.api_key =
                         IF service.api_key # "" THEN service.api_key
                         ELSE IF "OPENAI_API_KEY" \in DOMAIN environ
                         THEN environ.OPENAI_API_KEY ELSE ""
                  /\ call.request.content = text[1]
                  /\ call.remote.raises # None =>
                        /\ k = Len(RephrasingCalls) =>
                              \/ pc = "rephraser"
                              \/ /\ k = Len(rephrasing_services)
                                 /\ RephraserReturned
                                 /\ rephrased_text = << >>
                                 /\ ~rephrase_result[1].success
                                 /\ rephrase_result[1].error = call.remote.raises
                  /\ call.remote.raises = None =>
                        /\ k = Len(RephrasingCalls)
                        /\ RephraserReturned
                        /\ rephrase_result[1].success
                        /\ rephrased_text = OrElse(call.remote.content, << >>)

\* The rephraser has returned the language model's text after two calls to it:
\* the first, with the service's own credential, failed; the second, of a service
\* without a credential, used the environment's.
C20_Witness ==
    /\ pc = "returned"
    /\ Len(calls) = 2
    /\ calls[1].via = "llm"
    /\ calls[1].request.api_key = "sk-svc"
    /\ calls[1].remote.raises # None
    /\ calls[2].via = "llm"
    /\ calls[2].request.api_key = "sk-env"
    /\ rephrase_result[1].success
    /\ rephrased_text = Reworded

----------------------------------------------------------------------------
(* Properties of two requests served together, under SpecConcurrent. *)

\* What the request being served would be answered were it served alone, from
\* its own text, the configuration it read and the outcomes of its own remote
\* calls.
AloneRephrased == Attempted(RephrasingCalls[Len(RephrasingCalls)])
AloneChecked == IF flow = "rephrase" THEN AloneRephrased.rephrased ELSE request.text[1]
AlonePlagiarism ==
    [i \in 1..Len(plagiarism_services) |->
        check_plagiarism(AloneChecked, plagiarism_services[i],
                         PlagiarismCalls[i].remote).value]
AloneAI ==
    [i \in 1..Len(ai_detector_services) |->
        detect_ai(AloneChecked, ai_detector_services[i], AICalls[i].remote).value]
AloneSummary ==
    IF openai_config.api_key = ""
    THEN _generate_fallback_summary(AlonePlagiarism, AloneAI, None)
    ELSE generate_summary_with_openai(AlonePlagiarism, AloneAI,
                                      SummaryCalls[1].remote).value
AloneResponse ==
    IF flow = "check"
    THEN IF InputError
         THEN HttpError(400, "No text provided. Please provide text or upload a PDF file.")
         ELSE HttpOk([summary |-> AloneSummary,
                      plagiarism_results |-> AlonePlagiarism,
                      ai_detection_results |-> AloneAI,
                      original_text |-> request.text[1]])
    ELSE IF InputError THEN HttpError(400, "No text provided for rephrasing.")
    ELSE IF rephrasing_services = << >>
    THEN HttpError(500, "Rephrasing failed: No rephrasing services enabled")
    ELSE IF ~AloneRephrased.result.success
    THEN HttpError(500, "Rephrasing failed: " \o Str(AloneRephrased.result.error))
    ELSE IF AloneRephrased.rephrased = << >>
    THEN HttpError(500, "Rephrasing returned empty text")
    ELSE HttpOk([summary |-> AloneSummary,
                 rephrased_text |-> AloneRephrased.rephrased,
                 plagiarism_results |-> AlonePlagiarism,
                 ai_detection_results |-> AloneAI,
                 original_text |-> request.text[1]])

\* C21: under any interleaving of two requests (check or rephrase), a request's
\* response is the one it would get served alone with the same remote-call
\* outcomes, each of its remote calls carries its own text, and one enabled
\* service is called once for it.
C21_RequestsIndependent ==
    /\ \A i \in 1..Len(calls) :
          /\ calls[i].category = "rephrasing" =>
                (IF calls[i].via = "http" THEN calls[i].request.json.text
                 ELSE calls[i].request.content) = request.text[1]
          /\ calls[i].category \in {"plagiarism", "ai_detection"} =>
                calls[i].request.json.text = AloneChecked
          /\ calls[i].category = "summary" =>
                calls[i].request.content =
                    _prepare_results_context(AloneChecked, AlonePlagiarism, AloneAI)
    /\ Len(PlagiarismCalls) <= Len(plagiarism_services)
    /\ Len(AICalls) <= Len(ai_detector_services)
    /\ pc = "done" => response = AloneResponse

\* A check request has been answered with its results while a rephrase request
\* that arrived with it is still with its second rephrasing provider, both having
\* read the configuration that enables services.
C21_Witness ==
    /\ suspended # None
    /\ flow = "check"
    /\ Responded(200)
    /\ Len(calls) = 3
    /\ suspended[1].flow = "rephrase"
    /\ suspended[1].pc = "rephraser"
    /\ Len(suspended[1].calls) = 1

----------------------------------------------------------------------------
(* Properties of the summary generator, under SpecSummary (continued). *)

\* The orders that list the successful results of rs before the failed ones,
\* each group in the order of rs.
SuccessesFirst(rs) ==
    { f \in Orders(Len(rs)) :
        \A i, j \in 1..Len(rs) : i < j =>
            /\ rs[f[j]].success => rs[f[i]].success
            /\ (rs[f[i]].success <=> rs[f[j]].success) => f[i] < f[j] }

\* The lines of a category, its results taken in the order f.
LinesIn(rs, f, completed, none_enabled) ==
    IF rs = << >> THEN << none_enabled >>
    ELSE [i \in 1..Len(rs) |-> ResultLine(rs[f[i]], completed)]

\* The order of the list itself, and whether a failed result precedes a
\* successful one in it.
InputOrder(rs) == [i \in 1..Len(rs) |-> i]
FailurePrecedesSuccess(rs) ==
    \E i, j \in 1..Len(rs) : i < j /\ ~rs[i].success /\ rs[j].success

\* C22: in the fallback summary, within each category all successful services
\* are listed before all failed ones, each group in configuration order; the
\* lines are in configuration order exactly when no failed service precedes a
\* successful one in the list.
C22_SuccessesBeforeFailures ==
    FallbackProduced =>
        /\ \E f \in SuccessesFirst(plagiarism_results),
              g \in SuccessesFirst(ai_detection_results) :
                summary = Some(Rendered(
                    LinesIn(plagiarism_results, f, "Check completed",
                            "No plagiarism checkers were enabled.\n"),
                    LinesIn(ai_detection_results, g, "Detection completed",
                            "No AI detectors were enabled.\n")))
        /\ summary = Some(Rendered(
                    LinesIn(plagiarism_results, InputOrder(plagiarism_results),
                            "Check completed",
                            "No plagiarism checkers were enabled.\n"),
                    LinesIn(ai_detection_results, InputOrder(ai_detection_results),
                            "Detection completed",
                            "No AI detectors were enabled.\n")))
           <=> ( /\ ~FailurePrecedesSuccess(plagiarism_results)
                 /\ ~FailurePrecedesSuccess(ai_detection_results) )

\* The fallback summary has been produced for a plagiarism list in which a failed
\* service precedes a successful one.
C22_Witness ==
    /\ FallbackProduced
    /\ FailurePrecedesSuccess(plagiarism_results)
    /\ ai_detection_results # << >>

----------------------------------------------------------------------------
(* Properties of the request flows, under Spec (continued). *)

\* The text a supplied file holds, when it is a PDF that can be read.
Extracted == extract_text_from_pdf(request.file[1].document)

\* C23: in the check flow a supplied file takes precedence over a supplied
\* text. A file that is not a PDF, or whose extraction fails, rejects the
\* request with a 400 naming that error, no call being made, whatever text came
\* with it; for a valid PDF every checker and detector call carries the
\* extracted text, the summary prompt is built from it, and it is the
\* original_text of the response.
C23_FilePrecedence ==
    (flow = "check" /\ request.file # None) =>
        IF UnsupportedFile \/ ExtractionFails
        THEN /\ pc \in {"check_text", "done"}
             /\ calls = << >>
             /\ pc = "done" =>
                   /\ Responded(400)
                   /\ response[1].detail =
                         IF UnsupportedFile THEN "Only PDF files are supported"
                         ELSE Extracted.exc.msg
        ELSE /\ \A i \in 1..Len(CheckerCalls) :
                   CheckerCalls[i].request.json.text = Extracted.value
             /\ \A i \in 1..Len(SummaryCalls) :
                   SummaryCalls[i].request.content.text = First500(Extracted.value)
             /\ Responded(200) => response[1].body.original_text = Extracted.value

\* A check request that came with a text and a PDF holding another text has been
\* answered after a plagiarism call, an AI-detection call and a summary call.
C23_Witness ==
    /\ flow = "check"
    /\ Responded(200)
    /\ request.text = Some(SampleText)
    /\ request.file # None
    /\ Extracted.value # SampleText
    /\ PlagiarismCalls # << >>
    /\ AICalls # << >>
    /\ SummaryCalls # << >>

----------------------------------------------------------------------------
(* Termination of the request flows, under SpecFair. *)

\* The remote calls a request may make: one per enabled plagiarism service, AI
\* detector and rephrasing service, and one summary call.
CallBudget ==
    Len(plagiarism_services) + Len(ai_detector_services)
        + Len(rephrasing_services) + 1

\* C24: every request terminates. Each remote call returning, the check flow and
\* the rephrase flow reach a terminal state, a response or an explicit error,
\* and the remote calls made on the way never exceed one per enabled plagiarism
\* service, one per enabled AI-detection service, one per enabled rephrasing
\* service and one summary call.
C24_Terminates ==
    /\ <>( /\ pc = "done"
           /\ response # None
           /\ response[1].status_code \in {200, 400, 500} )
    /\ []( /\ Len(calls) <= CallBudget
           /\ flow = "check" => RephrasingCalls = << >>
           /\ pc # "raised" )

\* A rephrase request has terminated with a response after spending its whole
\* budget: two rephrasing calls, two plagiarism calls, an AI-detection call and
\* the summary call.
C24_Witness ==
    /\ pc = "done"
    /\ flow = "rephrase"
    /\ response # None
    /\ Len(rephrasing_services) = 2
    /\ Len(plagiarism_services) = 2
    /\ Len(calls) = CallBudget
    /\ Len(calls) = 6

============================================================================
